---- MODULE Spec2Model ----
(***************************************************************************)
(* A model of vibeverse.js: the avatar load queue (avatar.ts), the option  *)
(* resolver (config.ts), the warp controller (warpEffect.ts), the portal   *)
(* collision detector and navigation dispatcher (portal.ts) and the        *)
(* instance operations (vibeverse.ts, navigation.ts).                      *)
(*                                                                         *)
(* Strings are sequences of one-character strings, so that parsing,        *)
(* splitting and suffix tests are computed and not assumed.  Lengths and   *)
(* speeds of the warp effect are fixed-point numbers in tenths (2.0 is 20).*)
(***************************************************************************)
EXTENDS Integers, Sequences, FiniteSets, TLC

VARIABLES
    \* ---- the caller's options and the resolved configuration
    userOptions,        \* the options argument of vibeverse(): omitted fields are Undefined
    stateSource,        \* how state.options was produced (see InitQueue)
    options,            \* state.options
    \* ---- avatar.ts: the module-level queue
    inFlightCount,      \* let inFlightCount
    queue,              \* const queue: the pending tasks, oldest first
    running,            \* tasks whose loadAvatar() promise is not settled yet
    settled,            \* tasks whose promise settled and whose finally callback is
                        \* still in the microtask queue, oldest first
    finished,           \* the tasks whose finally callback has run
    startOrder,         \* history: task ids in the order next() was called
    accepted,           \* history: the accepted tasks, in the order of queue.push
    rejectionLogged,    \* console.warn of a rejected avatar URL has been written
    localEvents,        \* events emitted through state.onLocalAvatarChanged[1]
    remoteEvents,       \* events emitted through state.onRemoteAvatarChanged[1]
    returned,           \* tasks whose loadAndSwapAvatar() call has returned, which
                        \* fulfils the promise the call gave to its caller
    rigs,               \* the scene graph at each target rig: the rig's own
                        \* visible flag and its children, oldest first
    \* ---- vibeverse.ts: construction
    instance,           \* what the last successful vibeverse() call returned
    navElements,        \* nav-group elements appended to document.body
    thrown,             \* the error the last call threw, or Undefined
    lastArgs,           \* history: the kinds of scene, camera and player the last
                        \* vibeverse() call was given
    unhandledRejections,\* promises rejected with nobody awaiting them
    \* ---- avatar.ts: a second instance on the page (the module's queue and
    \* ---- counter are shared by every instance)
    peerMaxConcurrent,  \* avatarConfig.maxConcurrent of the second instance's
                        \* state, Undefined while there is no second instance
    viaPeer,            \* tasks enqueued through the second instance
    startedByPeer,      \* tasks started by a processQueue(state) call that was
                        \* given the second instance's state
    \* ---- events.ts: one event made by createEvent()
    handlers,           \* the Set of handlers, in insertion order
    calls,              \* the handlers the last emit invoked, in order
    eventLog,           \* history: the subscribe calls and the invocations of
                        \* the functions they returned, in order
    \* ---- warpEffect.ts: the warp controller
    enableWarpEffect,   \* state.enableWarpEffect
    isWarping,          \* state.isWarping
    currentCameraSpeed, \* state.currentCameraSpeed
    warpEffect,         \* state.warpEffect: Undefined (null) or the visual
    warpBuilds,         \* history: the number of createWarpEffect calls
    animatePending,     \* animate callbacks registered with requestAnimationFrame
    cameraPosition,     \* state.camera.position, along the camera's direction
    lineReset,          \* history: per tracked line, reset in the last animate call
    lastOp,             \* history: the last operation
    rampFrames,         \* history: frames since a stop directly followed by a start
    \* ---- portal.ts, vibeverse.ts: portals, collisions and navigation
    search,             \* new URLSearchParams(window.location.search): the entries
    playerPosition,     \* player.position of the session's player object
    startPortal,        \* state.startPortal: Undefined (null) or the visual
    exitPortal,         \* state.exitPortal
    startPortalBox,     \* state.startPortalBox: Undefined (null) or a box
    exitPortalBox,      \* state.exitPortalBox
    scenePortals,       \* portal visuals added to the scene, per role
    portalLoops,        \* idle-animation callbacks registered, per role
    href,               \* the last value assigned to window.location.href
    preloadFrames,      \* iframe elements with id preloadFrame in the document
    lastDispatch,       \* history: the entry handlers the last operation invoked
    created,            \* what the last createInGamePortals call returned
    streak              \* history: per role, the consecutive collision checks with
                        \* the player inside the expanded volume and the entry
                        \* handler calls made in them

queueVars == <<inFlightCount, queue, running, settled, finished, startOrder,
               accepted, rejectionLogged, localEvents, remoteEvents, returned,
               rigs>>
eventVars == <<handlers, calls, eventLog>>
peerVars == <<peerMaxConcurrent, viaPeer, startedByPeer>>
configVars == <<userOptions, stateSource, options, instance, navElements, thrown,
                lastArgs, unhandledRejections, eventVars, peerVars>>
warpVars == <<enableWarpEffect, isWarping, currentCameraSpeed, warpEffect,
              warpBuilds, animatePending, cameraPosition, lineReset, lastOp,
              rampFrames>>
portalVars == <<search, playerPosition, startPortal, exitPortal, startPortalBox,
                exitPortalBox, scenePortals, portalLoops, href, preloadFrames,
                lastDispatch, created, streak>>
vars == <<configVars, queueVars, warpVars, portalVars>>

\* ------------------------------------------------------------------ bounds
MaxTasks == 3           \* accepted avatar load tasks in one behaviour
MaxConcurrentInput == 2 \* largest maxConcurrent a caller or a typed state supplies
TrackedLines == 1       \* lines of the warp visual whose points the model follows
MaxPending == 2         \* animate callbacks pending at once
MaxCameraTravel == 6    \* the camera is followed this far
MaxRamp == 3            \* frames counted after a stop directly followed by a start
MaxCreateCalls == 2     \* calls of createInGamePortals
MaxChecks == 3          \* consecutive collision checks with the player inside
MaxInstances == 2       \* successful vibeverse() calls on one page
MaxEventCalls == 4      \* subscribe calls and unsubscribe calls on one event

\* ------------------------------------------------------------ JS values
\* An optional value (a property that may be absent, a value that may be
\* undefined) is a sequence of length at most one.
Undefined == <<>>
Some(v) == <<v>>

\* JS `a ?? b` for an optional a
Coalesce(a, b) == IF a = Undefined THEN b ELSE a[1]

\* JS property read: undefined when the object has no such property
Field(obj, name) == IF name \in DOMAIN obj THEN Some(obj[name]) ELSE Undefined

\* JS `a < b` for a number a and an optional number b (undefined is NaN: false)
JsLess(a, b) == IF b = Undefined THEN FALSE ELSE a < b[1]

Min(a, b) == IF a <= b THEN a ELSE b
Max(a, b) == IF a >= b THEN a ELSE b

\* ------------------------------------------------------------ strings
Letters == {"a", "b", "c", "e", "h", "i", "l", "m", "n", "o", "p", "r", "s",
            "t", "u", "v", "x", "y"}

RECURSIVE IndexOf(_, _, _)
\* the first position >= from of a character of set cs in s, or 0
IndexOf(s, cs, from) ==
    IF from > Len(s) THEN 0
    ELSE IF s[from] \in cs THEN from
    ELSE IndexOf(s, cs, from + 1)

RECURSIVE LastIndexOf(_, _, _)
\* the last position <= from of character c in s, or 0
LastIndexOf(s, c, from) ==
    IF from < 1 THEN 0
    ELSE IF s[from] = c THEN from
    ELSE LastIndexOf(s, c, from - 1)

\* String.prototype.endsWith
EndsWith(s, suffix) ==
    /\ Len(suffix) <= Len(s)
    /\ SubSeq(s, Len(s) - Len(suffix) + 1, Len(s)) = suffix

\* String.prototype.startsWith
StartsWith(s, prefix) ==
    /\ Len(prefix) <= Len(s)
    /\ SubSeq(s, 1, Len(prefix)) = prefix

RECURSIVE Split(_, _)
\* String.prototype.split(sep) for a one-character separator
Split(s, sep) ==
    LET i == IndexOf(s, {sep}, 1)
    IN  IF i = 0 THEN <<s>>
        ELSE <<SubSeq(s, 1, i - 1)>> \o Split(SubSeq(s, i + 1, Len(s)), sep)

Https == <<"h", "t", "t", "p", "s">>
Http == <<"h", "t", "t", "p">>
SchemeSep == <<":", "/", "/">>
VibatarHost == <<"v", "i", "b", "a", "t", "a", "r", ".", "a", "i">>
EvilHost == <<"e", "v", "i", "l", ".", "c", "o", "m">>
GlbSuffix == <<".", "g", "l", "b">>

\* ------------------------------------------------------------ new URL(s)
ParseFailure == [ok |-> FALSE, protocol |-> <<>>, hostname |-> <<>>]

RECURSIVE SkipSlashes(_)
SkipSlashes(s) == IF s # <<>> /\ s[1] = "/" THEN SkipSlashes(Tail(s)) ELSE s

\* the host name of an authority: after the last "@", before the port's ":"
HostOfAuthority(auth) ==
    LET at == LastIndexOf(auth, "@", Len(auth))
        hostport == SubSeq(auth, at + 1, Len(auth))
        colon == IndexOf(hostport, {":"}, 1)
    IN  IF colon = 0 THEN hostport ELSE SubSeq(hostport, 1, colon - 1)

\* the authority of the text after "scheme://": up to the first "/", "?" or "#"
AuthorityOf(rest) ==
    LET e == IndexOf(rest, {"/", "?", "#"}, 1)
    IN  IF e = 0 THEN rest ELSE SubSeq(rest, 1, e - 1)

\* new URL(s) with no base: the protocol and host name, or a failure (the throw)
ParseURLText(s) ==
    LET colon == IndexOf(s, {":"}, 1)
        scheme == SubSeq(s, 1, colon - 1)
        rest == SubSeq(s, colon + 1, Len(s))
        schemeOk == /\ colon > 1
                    /\ s[1] \in Letters
                    /\ \A i \in 1..(colon - 1) : s[i] \in Letters \cup {"."}
    IN  IF ~schemeOk THEN ParseFailure
        ELSE IF scheme \in {Https, Http}
        THEN LET host == HostOfAuthority(AuthorityOf(SkipSlashes(rest)))
             IN  IF host = <<>> \/ \E i \in 1..Len(host) : host[i] = " "
                 THEN ParseFailure
                 ELSE [ok |-> TRUE, protocol |-> scheme \o <<":">>, hostname |-> host]
        ELSE IF StartsWith(rest, <<"/", "/">>)
        THEN [ok |-> TRUE, protocol |-> scheme \o <<":">>,
              hostname |-> HostOfAuthority(AuthorityOf(SubSeq(rest, 3, Len(rest))))]
        ELSE [ok |-> TRUE, protocol |-> scheme \o <<":">>, hostname |-> <<>>]

\* strings a caller passes as avatarUrlOrUsername
Path == <<"/", "a">>
AvatarInputs ==
    { <<"a", "l", "i", "c", "e">>,                               \* alice
      <<"x", ":", "y">>,                                         \* x:y
      Https \o SchemeSep \o <<"s", "u", "b", ".">> \o VibatarHost \o Path,
      Https \o SchemeSep \o EvilHost \o Path,
      Https \o SchemeSep \o <<"x">> \o VibatarHost \o Path,
      Https \o SchemeSep \o VibatarHost \o <<"@">> \o EvilHost \o Path }

\* the strings callers of loadAndSwapAvatar pass: a username, a subdomain
\* of the default host, another host and a host that ends like the default one
EnqueueInputs ==
    { <<"a", "l", "i", "c", "e">>,
      Https \o SchemeSep \o <<"s", "u", "b", ".">> \o VibatarHost \o Path,
      Https \o SchemeSep \o EvilHost \o Path,
      Https \o SchemeSep \o <<"x">> \o VibatarHost \o Path }

\* the strings the model parses: the inputs and the URLs built from them
KnownStrings ==
    AvatarInputs \cup
    { Https \o SchemeSep \o VibatarHost \o <<"/">> \o s \o GlbSuffix : s \in AvatarInputs }

\* ParseURLText of each known string, computed once
ParseTable == [s \in KnownStrings |-> ParseURLText(s)]

ParseURL(s) == IF s \in KnownStrings THEN ParseTable[s] ELSE ParseURLText(s)

\* ------------------------------------------------------------ utils/url.ts
\* one domain of the allow-list: the mutant drops the dot of the suffix test
HostMatchesNoDot(hostname, domain) ==
    hostname = domain \/ EndsWith(hostname, domain)

HostMatches(hostname, domain) ==
    hostname = domain \/ EndsWith(hostname, <<".">> \o domain)

\* the mutant looks at the first entry of the allow-list only
isAllowedDomainFirstEntry(url, allowedDomains) ==
    LET urlObj == ParseURL(url)
    IN  IF ~urlObj.ok \/ allowedDomains = <<>> THEN FALSE
        ELSE HostMatches(urlObj.hostname, allowedDomains[1])

\* isAllowedDomain(url, allowedDomains): false when new URL throws
isAllowedDomain(url, allowedDomains) ==
    LET urlObj == ParseURL(url)
    IN  IF ~urlObj.ok THEN FALSE
        ELSE \E i \in 1..Len(allowedDomains) :
                HostMatches(urlObj.hostname, allowedDomains[i])

usernameToVibatarUrl(username) ==
    LET parts == Split(username, "/")
        name == parts[1]
        type == IF Len(parts) >= 2 THEN parts[2] ELSE <<>>
    IN  IF type # <<>>
        THEN Https \o SchemeSep \o VibatarHost \o <<"/">> \o name \o <<"/">> \o type
                 \o GlbSuffix
        ELSE Https \o SchemeSep \o VibatarHost \o <<"/">> \o username \o GlbSuffix

isUrl(url) ==
    LET parsed == ParseURL(url)
    IN  IF ~parsed.ok THEN FALSE ELSE parsed.protocol # <<>>

\* ------------------------------------------------------------ warpEffect.ts
\* DEFAULT_WARP_CONFIG, lengths, speeds and factors in tenths
DEFAULT_WARP_CONFIG ==
    [lineCount |-> 1000, pointsPerLine |-> 8, tunnelRadius |-> 20,
     tunnelExpansion |-> 5, minSpeed |-> 8, speedVariation |-> 2,
     oscillationSpeed |-> 20, minSpeedFactor |-> 5, lineLength |-> 30,
     resetDistance |-> 200, resetOffset |-> 200, cameraSpeed |-> 20,
     cameraAcceleration |-> 1]

\* ------------------------------------------------------------ config.ts
\* The options argument: warpConfig is undefined, null or a partial object.
WarpUndefined == [kind |-> "undefined", fields |-> <<>>]
WarpNull == [kind |-> "null", fields |-> <<>>]
WarpObject(f) == [kind |-> "object", fields |-> f]

DefaultAllowedDomains == <<VibatarHost>>

\* DEFAULT_VIBEVERSE_OPTIONS.avatarConfig
DEFAULT_AVATAR_CONFIG ==
    [useBottomOrigin |-> FALSE, allowedDomains |-> DefaultAllowedDomains]

\* the mutant returns null for a null argument instead of the defaults
mergeWarpConfigKeepNull(config) ==
    IF config.kind = "null" THEN Undefined
    ELSE Some([k \in DOMAIN DEFAULT_WARP_CONFIG |->
                 IF config.kind = "object" /\ k \in DOMAIN config.fields
                 THEN config.fields[k] ELSE DEFAULT_WARP_CONFIG[k]])

\* { ...DEFAULT_WARP_CONFIG, ...(config ?? {}) }: never null.  The result is an
\* optional value because VibeverseOptions.warpConfig is WarpConfig | null.
mergeWarpConfig(config) ==
    Some([k \in DOMAIN DEFAULT_WARP_CONFIG |->
            IF config.kind = "object" /\ k \in DOMAIN config.fields
            THEN config.fields[k] ELSE DEFAULT_WARP_CONFIG[k]])

\* Positions are in half units and radii in units.  A caller's position is a
\* partial vector: each of x, y, z is a number or missing.
PartialVector(x, y, z) == [x |-> x, y |-> y, z |-> z]

\* DEFAULT_VIBEVERSE_OPTIONS.enter.radius and .exit.radius
DefaultRadius == 6

\* half units of spacing per unit of radius: Math.max(...) * 2.5
SpacingPerRadius == 5

\* the mutant spaces the portals by the smaller radius
computePortalPositionsMin(rootPosition, enterRadius, exitRadius) ==
    LET spacing == Min(enterRadius, exitRadius) * SpacingPerRadius
    IN  [enter |-> <<rootPosition[1] - spacing, rootPosition[2], rootPosition[3]>>,
         exit |-> <<rootPosition[1] + spacing, rootPosition[2], rootPosition[3]>>]

\* computePortalPositions(rootPosition, enterRadius, exitRadius)
computePortalPositions(rootPosition, enterRadius, exitRadius) ==
    LET spacing == Max(enterRadius, exitRadius) * SpacingPerRadius
    IN  [enter |-> <<rootPosition[1] - spacing, rootPosition[2], rootPosition[3]>>,
         exit |-> <<rootPosition[1] + spacing, rootPosition[2], rootPosition[3]>>]

\* createVector3(v): v is Undefined or a partial vector
createVector3(v) ==
    IF v = Undefined THEN <<0, 0, 0>>
    ELSE <<Coalesce(v[1].x, 0), Coalesce(v[1].y, 0), Coalesce(v[1].z, 0)>>

\* Angles are in quarter turns: Math.PI
Pi == 2

\* DEFAULT_VIBEVERSE_OPTIONS.lookAt, .enter.lookAt and .exit.lookAt
DefaultLookAt == <<0, Pi, 0>>

\* createEuler(e): e is Undefined or a partial Euler
createEuler(e) ==
    IF e = Undefined THEN <<0, 0, 0>>
    ELSE <<Coalesce(e[1].x, 0), Coalesce(e[1].y, 0), Coalesce(e[1].z, 0)>>

\* options?.name, where a property that is present holds a value or Undefined
Prop(o, name) == IF name \in DOMAIN o THEN o[name] ELSE Undefined

\* options?.portal?.name: Undefined when the portal object or the property is
\* missing
PortalField(o, portal, name) ==
    IF portal \in DOMAIN o THEN Prop(o[portal], name) ELSE Undefined

\* the mutant falls back although the first value is there
OrElseAlwaysFallsBack(a, b) == b

\* a ?? b where both are optional values
OrElse(a, b) == IF a # Undefined THEN a ELSE b

\* computeVibeverseOptions(options): avatarConfig gets exactly the two
\* properties the object literal names
computeVibeverseOptions(o) ==
    LET position == createVector3(Prop(o, "position"))
        enterRadius == Coalesce(PortalField(o, "enter", "radius"), DefaultRadius)
        exitRadius == Coalesce(PortalField(o, "exit", "radius"), DefaultRadius)
        enterGiven == PortalField(o, "enter", "position")
        exitGiven == PortalField(o, "exit", "position")
        positions == computePortalPositions(position, enterRadius, exitRadius)
        \* if (!options?.enter?.position && !options?.exit?.position)
        placed == enterGiven = Undefined /\ exitGiven = Undefined
    IN
    [position |-> position,
     lookAt |-> createEuler(Prop(o, "lookAt")),
     username |-> Coalesce(o.username, <<>>),      \* options?.username ?? ''
     warpConfig |-> mergeWarpConfig(o.warpConfig),
     avatarConfig |->
        [useBottomOrigin |-> Coalesce(o.avatarConfig.useBottomOrigin,
                                      DEFAULT_AVATAR_CONFIG.useBottomOrigin),
         allowedDomains |-> Coalesce(o.avatarConfig.allowedDomains,
                                     DEFAULT_AVATAR_CONFIG.allowedDomains)],
     enter |->
        [radius |-> enterRadius,
         lookAt |-> createEuler(OrElse(PortalField(o, "enter", "lookAt"),
                                       Prop(o, "lookAt"))),
         position |-> IF placed THEN positions.enter
                      ELSE createVector3(OrElse(enterGiven, Prop(o, "position")))],
     exit |->
        [radius |-> exitRadius,
         lookAt |-> createEuler(OrElse(PortalField(o, "exit", "lookAt"),
                                       Prop(o, "lookAt"))),
         position |-> IF placed THEN positions.exit
                      ELSE createVector3(OrElse(exitGiven, Prop(o, "position")))]]

\* ------------------------------------------------------------ avatar.ts
Targets == {"player", "remote"}    \* targetPlayer: state.player or another rig
Outcomes == {"attached", "noMesh", "failed"}

\* A rig before any swap: visible, with the mesh the game gave it
InitialRig == [visible |-> TRUE, children |-> <<[kind |-> "mesh", visible |-> TRUE]>>]

\* gltf.scene.children[0]: a node of the loaded asset, visible as loaded
NewAvatar == [kind |-> "avatar", visible |-> TRUE]

\* targetPlayer.traverse((child) => { child.visible = false }): traverse calls
\* the callback on the object itself and then on every descendant
hideAll(rig) ==
    [visible |-> FALSE,
     children |-> [i \in 1..Len(rig.children) |->
                       [rig.children[i] EXCEPT !.visible = FALSE]]]

\* targetPlayer.add(newAvatar)
addChild(rig, node) == [rig EXCEPT !.children = Append(@, node)]

\* loadAndSwapAvatar is an async function with no await in its own body: the
\* promise it returned is fulfilled when the body returns, right after
\* queue.push(loadAvatar) and processQueue(state)
ReturnsAfterEnqueue(done, id) == done \cup {id}

\* const avatarUrl = isUrl(x) ? x : usernameToVibatarUrl(x)
ResolveAvatarUrl(avatarUrlOrUsername) ==
    IF isUrl(avatarUrlOrUsername) THEN avatarUrlOrUsername
    ELSE usernameToVibatarUrl(avatarUrlOrUsername)

\* the mutant takes the newest pending task (pop) instead of the oldest (shift)
ShiftLast(q) == [next |-> q[Len(q)], rest |-> SubSeq(q, 1, Len(q) - 1)]

\* the mutant reads the oldest pending task and leaves it in the queue
ShiftKeep(q) == [next |-> Head(q), rest |-> q]

\* queue.shift()
Shift(q) == [next |-> Head(q), rest |-> Tail(q)]

\* the mutant admits one task more than maxConcurrent
HasCapacityOffByOne(count, maxConcurrent) ==
    IF maxConcurrent = Undefined THEN FALSE ELSE count <= maxConcurrent[1]

\* the mutant keeps the last slot free
HasCapacityBelowLast(count, maxConcurrent) == JsLess(count + 1, maxConcurrent)

\* inFlightCount < state.options.avatarConfig.maxConcurrent
HasCapacity(count, maxConcurrent) == JsLess(count, maxConcurrent)

RECURSIVE processQueue(_, _)
\* The while loop of processQueue on q = [queue, inFlightCount, running,
\* startOrder]: next() runs loadAvatar up to its await, which starts the fetch.
processQueue(q, maxConcurrent) ==
    IF HasCapacity(q.inFlightCount, maxConcurrent) /\ Len(q.queue) > 0
    THEN LET sh == Shift(q.queue)
         IN  processQueue([queue |-> sh.rest,
                           inFlightCount |-> q.inFlightCount + 1,
                           running |-> q.running \cup {sh.next},
                           startOrder |-> Append(q.startOrder, sh.next)],
                          maxConcurrent)
    ELSE q

QueueState ==
    [queue |-> queue, inFlightCount |-> inFlightCount, running |-> running,
     startOrder |-> startOrder]

SetQueueState(q) ==
    /\ queue' = q.queue
    /\ inFlightCount' = q.inFlightCount
    /\ running' = q.running
    /\ startOrder' = q.startOrder

MaxConcurrentOfState == Field(options.avatarConfig, "maxConcurrent")

\* loadAndSwapAvatar(state, targetPlayer, avatarUrlOrUsername)
loadAndSwapAvatar(targetPlayer, avatarUrlOrUsername) ==
    LET avatarUrl == ResolveAvatarUrl(avatarUrlOrUsername)
        id == Len(accepted) + 1
    IN  /\ IF ~isAllowedDomain(avatarUrl, options.avatarConfig.allowedDomains)
           THEN \* console.warn and return
                /\ rejectionLogged' = TRUE
                /\ UNCHANGED <<inFlightCount, queue, running, settled, finished,
                            startOrder, accepted, localEvents, remoteEvents,
                            returned, rigs>>
           ELSE /\ Len(accepted) < MaxTasks
                /\ accepted' = Append(accepted,
                                 [target |-> targetPlayer, url |-> avatarUrl])
                \* queue.push(loadAvatar); processQueue(state)
                /\ SetQueueState(processQueue(
                       [QueueState EXCEPT !.queue = Append(queue, id)],
                       MaxConcurrentOfState))
                \* the end of the async function body: nothing was awaited
                /\ returned' = ReturnsAfterEnqueue(returned, id)
                /\ UNCHANGED <<settled, finished, localEvents, remoteEvents,
                               rejectionLogged, rigs>>
        /\ UNCHANGED <<configVars, warpVars, portalVars>>

Enqueue ==
    \E t \in Targets, s \in EnqueueInputs : loadAndSwapAvatar(t, s)

\* requests for the local player: a user name and a host that is refused
LocalInputs ==
    { <<"a", "l", "i", "c", "e">>,
      Https \o SchemeSep \o EvilHost \o Path }

EnqueueLocal == \E s \in LocalInputs : loadAndSwapAvatar("player", s)

\* the mutant runs the callback after a success only, as next().then(...) on
\* a loadAvatar without its catch would
FinallyQueuedOnSuccess(outcome) == outcome # "failed"

\* next().finally(...): loadAvatar catches a failed load (lines 83-85) and
\* returns after the warning of an empty asset, so its promise is fulfilled
\* whatever the outcome, and finally runs its callback either way
FinallyQueued(outcome) == TRUE

\* the mutant notifies the local listeners whatever the target rig is
CompleteTaskNotifiesLocal(id, outcome) ==
        /\ running' = running \ {id}
        /\ settled' = Append(settled, id)
        /\ localEvents' = IF outcome = "attached" THEN localEvents + 1
                          ELSE localEvents
        /\ rigs' = IF outcome = "attached"
                    THEN [rigs EXCEPT ![accepted[id].target] = addChild(hideAll(@), NewAvatar)]
                    ELSE rigs
        /\ UNCHANGED <<inFlightCount, queue, finished, startOrder, accepted,
                       rejectionLogged, returned, remoteEvents, configVars,
                       warpVars, portalVars>>

\* The rest of loadAvatar after `await loader.loadAsync(avatarUrl)`: the load
\* fails (catch), the asset has no child, or the avatar is attached and the
\* event emitted.  The promise of loadAvatar settles; the finally callback is
\* queued as a microtask.
CompleteTask(id, outcome) ==
        /\ running' = running \ {id}
        /\ settled' = IF FinallyQueued(outcome) THEN Append(settled, id) ELSE settled
        /\ IF outcome = "attached" /\ accepted[id].target = "player"
           THEN localEvents' = localEvents + 1
           ELSE UNCHANGED localEvents
        /\ IF outcome = "attached" /\ accepted[id].target # "player"
           THEN remoteEvents' = remoteEvents + 1
           ELSE UNCHANGED remoteEvents
        /\ rigs' = IF outcome = "attached"
                    THEN [rigs EXCEPT ![accepted[id].target] = addChild(hideAll(@), NewAvatar)]
                    ELSE rigs
        /\ UNCHANGED <<inFlightCount, queue, finished, startOrder, accepted,
                       rejectionLogged, returned, configVars, warpVars,
                       portalVars>>

TaskCompletes == \E id \in running, outcome \in Outcomes : CompleteTask(id, outcome)

\* .finally(() => { inFlightCount--; processQueue(state) })
Finally ==
    /\ settled # <<>>
    /\ LET done == Head(settled)
       IN  /\ settled' = Tail(settled)
           /\ finished' = finished \cup {done}
           /\ SetQueueState(processQueue(
                  [QueueState EXCEPT !.inFlightCount = inFlightCount - 1],
                  MaxConcurrentOfState))
    /\ UNCHANGED <<accepted, rejectionLogged, localEvents, remoteEvents, returned,
                   rigs, configVars, warpVars, portalVars>>


\* ------------------------------------------------------------ warp visual
\* createWarpEffect: point j (from 0) of a line at depth j * lineLength and
\* radius tunnelRadius + j * tunnelExpansion (x and y are the radius at the
\* line's angle); the line's velocity is minSpeed + Math.random() * speedVariation.
InitialLine(config, baseVelocity) ==
    [z |-> [j \in 1..config.pointsPerLine |-> (j - 1) * config.lineLength],
     radius |-> [j \in 1..config.pointsPerLine |->
                    config.tunnelRadius + (j - 1) * config.tunnelExpansion],
     velocity |-> baseVelocity]

LineVelocities(config) == {config.minSpeed, config.minSpeed + config.speedVariation}

NumTracked(config) == Min(config.lineCount, TrackedLines)

\* the visuals createWarpEffect can return: lines.visible = false, the position
\* copied from the camera
createWarpEffect(config) ==
    { [visible |-> FALSE, opacity |-> 10, position |-> cameraPosition,
       lines |-> [i \in 1..NumTracked(config) |-> InitialLine(config, vs[i])]] :
        vs \in [1..NumTracked(config) -> LineVelocities(config)] }

\* (Math.sin(elapsedTime * oscillationSpeed + timingOffset) + 1) * 0.5, in tenths
MovementFactors == {0, 10}

\* baseVelocity * (minSpeedFactor + movementFactor * (1 - minSpeedFactor))
CurrentVelocity(baseVelocity, movementFactor, config) ==
    (baseVelocity * (config.minSpeedFactor * 10
                       + movementFactor * (10 - config.minSpeedFactor))) \div 100

\* the mutant resets the radii and leaves the depths
ResetLineRadiusOnly(line, config) ==
    [line EXCEPT
        !.radius = [k \in 1..config.pointsPerLine |->
                      config.tunnelRadius + (k - 1) * config.tunnelExpansion]]

\* the inner loop over k: every point of the line back to the initial layout
\* shifted by resetOffset
ResetLine(line, config) ==
    [line EXCEPT
        !.z = [k \in 1..config.pointsPerLine |->
                  (k - 1) * config.lineLength - config.resetOffset],
        !.radius = [k \in 1..config.pointsPerLine |->
                      config.tunnelRadius + (k - 1) * config.tunnelExpansion]]

RECURSIVE AdvancePoints(_, _, _, _)
\* The loop over j (from point j on) of one line in animate: r = [line, reset].
AdvancePoints(r, j, v, config) ==
    IF j > config.pointsPerLine THEN r
    ELSE LET moved == [r.line EXCEPT !.z[j] = @ + v]
         IN  IF moved.z[j] > config.resetDistance
             THEN AdvancePoints([line |-> ResetLine(moved, config), reset |-> TRUE],
                                j + 1, v, config)
             ELSE AdvancePoints([line |-> moved, reset |-> r.reset],
                                j + 1, v, config)

\* the mutant accelerates without the clamp
AccelerateUnclamped(speed, config) == speed + config.cameraAcceleration

\* Math.min(config.cameraSpeed, state.currentCameraSpeed + config.cameraAcceleration)
Accelerate(speed, config) ==
    Min(config.cameraSpeed, speed + config.cameraAcceleration)

\* One call of animate while Warping, on w = [speed, camera, effect, reset]:
\* accelerate, move the camera, let the visual follow, advance every line.
\* mf[i] is line i's movement factor at this call's Date.now().
animate(w, mf, config) ==
    LET speed == Accelerate(w.speed, config)
        camera == w.camera + speed
        advanced == [i \in DOMAIN w.effect.lines |->
                        AdvancePoints([line |-> w.effect.lines[i], reset |-> FALSE], 1,
                                      CurrentVelocity(w.effect.lines[i].velocity,
                                                      mf[i], config),
                                      config)]
    IN  [speed |-> speed,
         camera |-> camera,
         effect |-> [w.effect EXCEPT !.position = camera,
                                     !.lines = [i \in DOMAIN advanced |->
                                                   advanced[i].line]],
         reset |-> [i \in DOMAIN advanced |-> advanced[i].reset]]

RECURSIVE RunAnimate(_, _, _, _)
\* the pending animate callbacks of one frame, in the order they were registered
RunAnimate(w, n, mfs, config) ==
    IF n = 0 THEN w
    ELSE RunAnimate(animate(w, mfs[Len(mfs) - n + 1], config), n - 1, mfs, config)

\* ------------------------------------------------------------ warp controller
WarpConfigOfState == options.warpConfig[1]     \* state.warpConfig!

\* the fields of state that startWarpEffect and stopWarpEffect write
WarpState ==
    [isWarping |-> isWarping, currentCameraSpeed |-> currentCameraSpeed,
     warpEffect |-> warpEffect, warpBuilds |-> warpBuilds,
     animatePending |-> animatePending, lineReset |-> lineReset]

SetWarpState(w) ==
    /\ isWarping' = w.isWarping
    /\ currentCameraSpeed' = w.currentCameraSpeed
    /\ warpEffect' = w.warpEffect
    /\ warpBuilds' = w.warpBuilds
    /\ animatePending' = w.animatePending
    /\ lineReset' = w.lineReset

\* the mutant drops the test of state.isWarping
StartReturnsEarlyIgnoringWarping(enabled, warping) == ~enabled

\* if (!state.enableWarpEffect || state.isWarping) return
StartReturnsEarly(enabled, warping) == ~enabled \/ warping

\* the mutant builds a new visual on every effective start
startWarpEffectRebuilding(w, enabled, built) ==
    IF StartReturnsEarly(enabled, w.isWarping) THEN w
    ELSE [isWarping |-> TRUE,
          currentCameraSpeed |-> 0,
          warpEffect |-> Some([built EXCEPT !.visible = TRUE, !.opacity = 10]),
          warpBuilds |-> w.warpBuilds + 1,
          animatePending |-> w.animatePending + 1,
          lineReset |-> [i \in DOMAIN built.lines |-> FALSE]]

\* startWarpEffect(state) on the warp fields w; built is what createWarpEffect
\* returns if it is called
startWarpEffect(w, enabled, built) ==
    IF StartReturnsEarly(enabled, w.isWarping) THEN w
    ELSE [isWarping |-> TRUE,
          currentCameraSpeed |-> 0,
          warpEffect |->
             IF w.warpEffect = Undefined
             THEN Some([built EXCEPT !.visible = TRUE, !.opacity = 10])
             ELSE Some([w.warpEffect[1] EXCEPT !.visible = TRUE, !.opacity = 10]),
          warpBuilds |-> IF w.warpEffect = Undefined THEN w.warpBuilds + 1
                         ELSE w.warpBuilds,
          \* requestAnimationFrame(animate)
          animatePending |-> w.animatePending + 1,
          lineReset |-> IF w.warpEffect = Undefined
                        THEN [i \in DOMAIN built.lines |-> FALSE]
                        ELSE w.lineReset]

\* the mutant forgets to reset the accumulated speed
StoppedKeepSpeed(w) ==
    [w EXCEPT !.warpEffect = Some([w.warpEffect[1] EXCEPT !.visible = FALSE]),
              !.isWarping = FALSE]

\* the mutant leaves the visual shown
StoppedKeepVisible(w) ==
    [w EXCEPT !.isWarping = FALSE, !.currentCameraSpeed = 0]

Stopped(w) ==
    [w EXCEPT !.warpEffect = Some([w.warpEffect[1] EXCEPT !.visible = FALSE]),
              !.isWarping = FALSE,
              !.currentCameraSpeed = 0]

\* stopWarpEffect(state) on the warp fields w
stopWarpEffect(w) ==
    IF w.warpEffect = Undefined \/ ~w.isWarping THEN w ELSE Stopped(w)

\* a direct call of the exported startWarpEffect
StartWarpEffect ==
    /\ \E built \in createWarpEffect(WarpConfigOfState) :
          LET w == startWarpEffect(WarpState, enableWarpEffect, built)
          IN  /\ w.animatePending <= MaxPending
              /\ SetWarpState(w)
    /\ lastOp' = "start"
    /\ rampFrames' = IF lastOp = "stop" /\ ~isWarping /\ isWarping'
                     THEN Some(0) ELSE Undefined
    /\ UNCHANGED <<enableWarpEffect, cameraPosition, configVars, queueVars, portalVars>>

\* a direct call of the exported stopWarpEffect
StopWarpEffect ==
    /\ SetWarpState(stopWarpEffect(WarpState))
    /\ lastOp' = "stop"
    /\ rampFrames' = Undefined
    /\ UNCHANGED <<enableWarpEffect, cameraPosition, configVars, queueVars, portalVars>>

\* the mutant only stores the flag
toggleWarpEffectFlagOnly(enable) ==
    /\ enableWarpEffect' = enable
    /\ SetWarpState(WarpState)
    /\ lastOp' = "toggle"
    /\ rampFrames' = Undefined
    /\ UNCHANGED <<cameraPosition, configVars, queueVars, portalVars>>

\* instance.toggleWarpEffect(enable)
toggleWarpEffect(enable) ==
    /\ enableWarpEffect' = enable
    /\ IF ~enable
       THEN SetWarpState(stopWarpEffect(WarpState))
       ELSE SetWarpState(WarpState)
    /\ lastOp' = "toggle"
    /\ rampFrames' = Undefined
    /\ UNCHANGED <<cameraPosition, configVars, queueVars, portalVars>>

ToggleWarpEffect == \E enable \in BOOLEAN : toggleWarpEffect(enable)

\* the mutant registers the callback again although isWarping is false
IdleCallbacksRegisterAgain(pending) == pending

\* `if (!state.isWarping) return` in each of the pending callbacks: none of
\* them reaches requestAnimationFrame(animate)
IdleCallbacksRegister(pending) == 0

\* One animation frame: the browser runs the callbacks registered with
\* requestAnimationFrame.  A callback that finds isWarping false returns and
\* registers nothing; the others run animate and register themselves again.
Frame ==
    /\ animatePending > 0
    /\ IF ~isWarping
       THEN /\ animatePending' = IdleCallbacksRegister(animatePending)
            /\ UNCHANGED <<currentCameraSpeed, warpEffect, cameraPosition, lineReset>>
       ELSE /\ cameraPosition < MaxCameraTravel
            /\ \E mfs \in [1..animatePending ->
                             [1..Len(warpEffect[1].lines) -> MovementFactors]] :
                  LET w == RunAnimate([speed |-> currentCameraSpeed,
                                       camera |-> cameraPosition,
                                       effect |-> warpEffect[1],
                                       reset |-> lineReset],
                                      animatePending, mfs, WarpConfigOfState)
                  IN  /\ currentCameraSpeed' = w.speed
                      /\ cameraPosition' = w.camera
                      /\ warpEffect' = Some(w.effect)
                      /\ lineReset' = w.reset
            /\ UNCHANGED animatePending
    /\ lastOp' = "frame"
    /\ rampFrames' = IF rampFrames # Undefined /\ rampFrames[1] < MaxRamp
                     THEN Some(rampFrames[1] + 1) ELSE Undefined
    /\ UNCHANGED <<enableWarpEffect, isWarping, warpBuilds, configVars, queueVars,
                   portalVars>>

\* ------------------------------------------------------------ portal.ts
Roles == {"start", "exit"}

\* 'https://portal.pieter.com'
HubUrl ==
    Https \o SchemeSep \o
    <<"p", "o", "r", "t", "a", "l", ".", "p", "i", "e", "t", "e", "r", ".",
      "c", "o", "m">>

RefHost == <<"o", ".", "c">>

\* window.location.search as new URLSearchParams(...) reads it: the entries
SearchInputs ==
    { <<>>,
      <<[key |-> "ref", value |-> RefHost]>>,
      <<[key |-> "ref", value |-> <<>>]>>,
      <<[key |-> "color", value |-> <<"r", "e", "d">>],
        [key |-> "a", value |-> <<"1">>],
        [key |-> "username", value |-> <<"e">>],
        [key |-> "ref", value |-> Http \o SchemeSep \o RefHost],
        [key |-> "a", value |-> <<"2">>],
        [key |-> "portal", value |-> <<"x">>]>>,
      <<[key |-> "ref",
         value |-> RefHost \o <<"?", "r", "e", "f", "=", "z">>],
        [key |-> "a", value |-> <<"1">>],
        [key |-> "ref", value |-> <<"x">>]>> }

\* params.get(param): the first value under the key, or null
getQueryParam(params, param) ==
    LET at == {i \in 1..Len(params) : params[i].key = param}
    IN  IF at = {} THEN Undefined
        ELSE Some(params[CHOOSE i \in at : \A j \in at : i <= j].value)

\* refUrl(): the referrer with a scheme, or null
refUrl(params) ==
    LET ref == getQueryParam(params, "ref")
    IN  IF ref # Undefined /\ ref[1] # <<>>
        THEN IF ~StartsWith(ref[1], Http \o SchemeSep)
                /\ ~StartsWith(ref[1], Https \o SchemeSep)
             THEN Some(Https \o SchemeSep \o ref[1])
             ELSE Some(ref[1])
        ELSE Undefined

\* the mutant takes every visitor for one sent by a referrer
isVibeverseAlways(params) == TRUE

\* isVibeverse(): !!refUrl()
isVibeverse(params) == refUrl(params) # Undefined

\* Lengths are in half units.  THREE.Box3: min and max corners.
ExpandMargin == 3       \* expandByScalar(1.5)

\* the boxes Box3.setFromObject reports for the portal visuals of a session
PortalBounds ==
    { [min |-> <<0, 0, 0>>, max |-> <<4, 4, 2>>],
      [min |-> <<10, 0, 0>>, max |-> <<14, 4, 2>>] }

\* positions the host gives the player
PlayerPositions ==
    { <<2, 2, 1>>, <<7, 0, 0>>, <<12, 7, 5>>, <<30, 0, 0>> }

\* the mutant leaves the box as it is
expandByScalarNone(box, s) == box

\* the mutant moves the faces inwards
expandByScalarInward(box, s) ==
    [min |-> [i \in 1..3 |-> box.min[i] + s],
     max |-> [i \in 1..3 |-> box.max[i] - s]]

\* Box3.expandByScalar
expandByScalar(box, s) ==
    [min |-> [i \in 1..3 |-> box.min[i] - s],
     max |-> [i \in 1..3 |-> box.max[i] + s]]

\* Box3.containsPoint: the faces belong to the box
containsPoint(box, p) ==
    \A i \in 1..3 : p[i] >= box.min[i] /\ p[i] <= box.max[i]

\* new THREE.Box3().setFromObject(portal)
setFromObject(portal) == portal.bounds

\* the fields of the session the entry handlers read and write
NavState ==
    [w |-> WarpState, href |-> href, preloadFrames |-> preloadFrames,
     startPortalBox |-> startPortalBox, exitPortalBox |-> exitPortalBox,
     dispatched |-> {}]

\* url + (paramString ? '?' + paramString : ''): the address, the separator
\* and the entries that newParams.toString() writes after it; toString() of
\* a URLSearchParams is empty exactly when it has no entry
Located(url, newParams) ==
    [base |-> url,
     mark |-> IF newParams # <<>> THEN <<"?">> ELSE <<>>,
     params |-> newParams]

\* the mutant drops the first ref entry only
WithoutFirstRef(current) ==
    LET at == {i \in 1..Len(current) : current[i].key = "ref"}
        first == CHOOSE i \in at : \A j \in at : i <= j
    IN  IF at = {} THEN current
        ELSE SubSeq(current, 1, first - 1) \o SubSeq(current, first + 1, Len(current))

\* the entries of current whose key is not ref, in order
RECURSIVE WithoutRef(_)
WithoutRef(current) ==
    IF current = <<>> THEN <<>>
    ELSE IF Head(current).key # "ref"
         THEN <<Head(current)>> \o WithoutRef(Tail(current))
         ELSE WithoutRef(Tail(current))

\* handleStartPortalEntry(state)
handleStartPortalEntry(n, built) ==
    LET url == refUrl(search)
        entered == [n EXCEPT !.dispatched = @ \cup {"start"}]
    IN  IF url # Undefined
        THEN [entered EXCEPT
                !.w = IF enableWarpEffect
                      THEN startWarpEffect(n.w, enableWarpEffect, built)
                      ELSE n.w,
                !.href = Some(Located(url[1], WithoutRef(search)))]
        ELSE entered

\* newParams.has(key)
Has(params, k) == \E i \in 1..Len(params) : params[i].key = k

\* the mutant forwards every current parameter
AppendEvery(newParams, current) == newParams \o current

\* the forEach of handleExitPortalEntry: append what is not yet set
RECURSIVE AppendUnset(_, _)
AppendUnset(newParams, current) ==
    IF current = <<>> THEN newParams
    ELSE IF ~Has(newParams, Head(current).key)
         THEN AppendUnset(Append(newParams, Head(current)), Tail(current))
         ELSE AppendUnset(newParams, Tail(current))

\* the mutant creates the iframe without looking for an existing one
handleExitPortalEntryPreloadsAgain(n, built) ==
    LET explicit ==
            <<[key |-> "portal", value |-> <<"t", "r", "u", "e">>]>>
            \o (IF options.username # <<>>
                THEN <<[key |-> "username", value |-> options.username]>>
                ELSE <<>>)
            \o <<[key |-> "color", value |-> <<"w", "h", "i", "t", "e">>]>>
        nextPage == Located(HubUrl, AppendUnset(explicit, search))
    IN  [n EXCEPT
           !.dispatched = @ \cup {"exit"},
           !.preloadFrames = Append(n.preloadFrames, nextPage),
           !.w = IF enableWarpEffect
                 THEN startWarpEffect(n.w, enableWarpEffect, built)
                 ELSE n.w,
           !.href = Some(nextPage)]

\* handleExitPortalEntry(state)
handleExitPortalEntry(n, built) ==
    LET explicit ==
            <<[key |-> "portal", value |-> <<"t", "r", "u", "e">>]>>
            \o (IF options.username # <<>>
                THEN <<[key |-> "username", value |-> options.username]>>
                ELSE <<>>)
            \o <<[key |-> "color", value |-> <<"w", "h", "i", "t", "e">>]>>
        nextPage == Located(HubUrl, AppendUnset(explicit, search))
    IN  [n EXCEPT
           !.dispatched = @ \cup {"exit"},
           !.preloadFrames = IF n.preloadFrames = <<>> THEN <<nextPage>>
                             ELSE n.preloadFrames,
           !.w = IF enableWarpEffect
                 THEN startWarpEffect(n.w, enableWarpEffect, built)
                 ELSE n.w,
           !.href = Some(nextPage)]

\* the mutant remembers an entry: a portal whose handler ran in this stay of
\* the player is not dispatched again
checkPortalCollisionsDebounced(n, player, built) ==
    IF player = Undefined THEN n
    ELSE
      LET atStart ==
            IF n.startPortalBox # Undefined /\ startPortal # Undefined
            THEN LET box == setFromObject(startPortal[1])
                     boxed == [n EXCEPT !.startPortalBox = Some(box)]
                 IN  IF containsPoint(expandByScalar(box, ExpandMargin),
                                      player[1])
                        /\ streak["start"].entries = 0
                     THEN handleStartPortalEntry(boxed, built)
                     ELSE boxed
            ELSE n
      IN  IF atStart.exitPortalBox # Undefined /\ exitPortal # Undefined
          THEN LET box == setFromObject(exitPortal[1])
                   boxed == [atStart EXCEPT !.exitPortalBox = Some(box)]
               IN  IF containsPoint(expandByScalar(box, ExpandMargin),
                                    player[1])
                      /\ streak["exit"].entries = 0
                   THEN handleExitPortalEntry(boxed, built)
                   ELSE boxed
          ELSE atStart

\* checkPortalCollisions(state, player); player is Undefined when the caller
\* passes none
checkPortalCollisions(n, player, built) ==
    IF player = Undefined THEN n
    ELSE
      LET atStart ==
            IF n.startPortalBox # Undefined /\ startPortal # Undefined
            THEN LET box == setFromObject(startPortal[1])
                     boxed == [n EXCEPT !.startPortalBox = Some(box)]
                 IN  IF containsPoint(expandByScalar(box, ExpandMargin),
                                      player[1])
                     THEN handleStartPortalEntry(boxed, built)
                     ELSE boxed
            ELSE n
      IN  IF atStart.exitPortalBox # Undefined /\ exitPortal # Undefined
          THEN LET box == setFromObject(exitPortal[1])
                   boxed == [atStart EXCEPT !.exitPortalBox = Some(box)]
               IN  IF containsPoint(expandByScalar(box, ExpandMargin),
                                    player[1])
                   THEN handleExitPortalEntry(boxed, built)
                   ELSE boxed
          ELSE atStart

\* history: the position p is within 1.5 units of the portal of a role, on
\* every axis
PortalOf(role) == IF role = "start" THEN startPortal ELSE exitPortal

InExpandedVolume(role, p) ==
    /\ PortalOf(role) # Undefined
    /\ \A i \in 1..3 :
          /\ p[i] >= PortalOf(role)[1].bounds.min[i] - 3
          /\ p[i] <= PortalOf(role)[1].bounds.max[i] + 3

NoStreak == [checks |-> 0, entries |-> 0]

\* a collision pass run for the caller `op`, who passes `player`
CollisionPass(op, player) ==
    /\ \A r \in Roles : streak[r].checks < MaxChecks
    /\ \E built \in createWarpEffect(WarpConfigOfState) :
          LET n == checkPortalCollisions(NavState, player, built)
          IN  /\ n.w.animatePending <= MaxPending
              /\ SetWarpState(n.w)
              /\ href' = n.href
              /\ preloadFrames' = n.preloadFrames
              /\ startPortalBox' = n.startPortalBox
              /\ exitPortalBox' = n.exitPortalBox
              /\ lastDispatch' = n.dispatched
              /\ streak' =
                   [r \in Roles |->
                      IF player = Undefined THEN streak[r]
                      ELSE IF InExpandedVolume(r, player[1])
                           THEN [checks |-> streak[r].checks + 1,
                                 entries |-> streak[r].entries
                                    + (IF r \in n.dispatched THEN 1 ELSE 0)]
                           ELSE NoStreak]
    /\ lastOp' = op
    /\ rampFrames' = IF lastOp = "stop" /\ ~isWarping /\ isWarping'
                     THEN Some(0) ELSE Undefined
    /\ UNCHANGED <<enableWarpEffect, cameraPosition, configVars, queueVars, search,
                   playerPosition, startPortal, exitPortal, scenePortals,
                   portalLoops, created>>

\* a direct call of the exported checkPortalCollisions(state, player) with the
\* session's player
CheckPortalCollisions == CollisionPass("check", Some(playerPosition))

\* the host moves the player between two calls
MovePlayer ==
    /\ \E p \in PlayerPositions \ {playerPosition} :
          /\ playerPosition' = p
          /\ streak' = [r \in Roles |->
                          IF InExpandedVolume(r, p) THEN streak[r] ELSE NoStreak]
    /\ lastOp' = "move"
    /\ rampFrames' = Undefined
    /\ lastDispatch' = {}
    /\ UNCHANGED <<configVars, queueVars, enableWarpEffect, isWarping,
                   currentCameraSpeed, warpEffect, warpBuilds, animatePending,
                   cameraPosition, lineReset, search, startPortal, exitPortal,
                   startPortalBox, exitPortalBox, scenePortals, portalLoops, href,
                   preloadFrames, created>>

\* ------------------------------------------------------------ vibeverse()
\* createStartPortal / createExitPortal: the visual is built and added to the
\* scene, its box measured, and its idle animation started (one callback
\* registered with requestAnimationFrame, which registers itself again on
\* every frame while the portal exists)
createPortal(role, bounds) == [type |-> role, bounds |-> bounds]

\* instance.createInGamePortals()
CreateInGamePortals ==
    /\ scenePortals["exit"] < MaxCreateCalls
    /\ \E be \in PortalBounds :
          /\ exitPortal' = Some(createPortal("exit", be))
          /\ exitPortalBox' = Some(setFromObject(createPortal("exit", be)))
    /\ IF isVibeverse(search)
       THEN /\ \E bs \in PortalBounds :
                  /\ startPortal' = Some(createPortal("start", bs))
                  /\ startPortalBox' = Some(setFromObject(createPortal("start", bs)))
            /\ scenePortals' = [r \in Roles |-> scenePortals[r] + 1]
            /\ portalLoops' = [r \in Roles |-> portalLoops[r] + 1]
       ELSE /\ scenePortals' = [scenePortals EXCEPT !["exit"] = @ + 1]
            /\ portalLoops' = [portalLoops EXCEPT !["exit"] = @ + 1]
            /\ UNCHANGED <<startPortal, startPortalBox>>
    \* return { exitPortal, startPortal: state.startPortal }
    /\ created' = Some([exitPortal |-> exitPortal'[1], startPortal |-> startPortal'])
    /\ streak' = [r \in Roles |-> NoStreak]
    /\ lastOp' = "createInGamePortals"
    /\ rampFrames' = Undefined
    /\ lastDispatch' = {}
    /\ UNCHANGED <<configVars, queueVars, enableWarpEffect, isWarping,
                   currentCameraSpeed, warpEffect, warpBuilds, animatePending,
                   cameraPosition, lineReset, search, playerPosition, href,
                   preloadFrames>>

\* instance.update(): checkPortalCollisions(state), no player is passed
Update == CollisionPass("update", Undefined)

\* the state object built by vibeverse(): the warp fields
InitWarpState ==
    /\ enableWarpEffect = (options.warpConfig # Undefined)
    /\ isWarping = FALSE
    /\ currentCameraSpeed = 0
    /\ warpEffect = Undefined
    /\ warpBuilds = 0
    /\ animatePending = 0
    /\ cameraPosition = 0
    /\ lineReset = <<>>
    /\ lastOp = "vibeverse"
    /\ rampFrames = Undefined

\* the members of the object vibeverse() returns, by what each of them is:
\* createHUDPortals is the Navigation object createNavigation returned
TheInstance ==
    [createInGamePortals |-> "function", update |-> "function",
     createHUDPortals |-> "object"]

\* the page after one successful vibeverse() call without an avatar parameter
\* createEvent(): an empty Set of handlers
InitEventState ==
    /\ handlers = <<>>
    /\ calls = <<>>
    /\ eventLog = <<>>

\* one instance on the page
InitPeerState ==
    /\ peerMaxConcurrent = Undefined
    /\ viaPeer = {}
    /\ startedByPeer = {}

InitInstance ==
    /\ InitEventState
    /\ InitPeerState
    /\ instance = Some(TheInstance)
    /\ navElements = 1
    /\ thrown = Undefined
    /\ lastArgs = Some([scene |-> "Scene", camera |-> "Camera", player |-> "Object3D"])
    /\ unhandledRejections = 0

\* the portal fields of the state object, and the page the session runs in
InitPortalState ==
    /\ startPortal = Undefined
    /\ exitPortal = Undefined
    /\ startPortalBox = Undefined
    /\ exitPortalBox = Undefined
    /\ scenePortals = [r \in Roles |-> 0]
    /\ portalLoops = [r \in Roles |-> 0]
    /\ href = Undefined
    /\ preloadFrames = <<>>
    /\ lastDispatch = {}
    /\ created = Undefined
    /\ streak = [r \in Roles |-> NoStreak]

InitQueueState ==
    /\ inFlightCount = 0
    /\ queue = <<>>
    /\ running = {}
    /\ settled = <<>>
    /\ finished = {}
    /\ startOrder = <<>>
    /\ accepted = <<>>
    /\ rejectionLogged = FALSE
    /\ localEvents = 0
    /\ remoteEvents = 0
    /\ returned = {}
    /\ rigs = [t \in Targets |-> InitialRig]

\* ------------------------------------------------------------ construction
NoAvatarConfig ==
    [useBottomOrigin |-> Undefined, allowedDomains |-> Undefined,
     maxConcurrent |-> Undefined]

\* options a caller passes for the placement of the portals
PositionInputs ==
    { Undefined,
      Some(PartialVector(Some(2), Some(-4), Some(6))),
      Some(PartialVector(Some(-3), Undefined, Undefined)) }

RadiusInputs == {Undefined, Some(0), Some(2), Some(9)}

ExplicitPositionInputs == {Undefined, Some(PartialVector(Some(7), Some(1), Undefined))}

\* a caller's lookAt is a partial Euler, in quarter turns
LookAtInputs == {Undefined, Some(PartialVector(Undefined, Some(1), Undefined))}

PlacementUserOptions ==
    { [username |-> Undefined, warpConfig |-> WarpUndefined,
       avatarConfig |-> NoAvatarConfig, position |-> p, lookAt |-> l,
       enter |-> [radius |-> er, position |-> ep],
       exit |-> [radius |-> xr, position |-> xp]] :
        p \in PositionInputs, er \in RadiusInputs, xr \in RadiusInputs,
        ep \in ExplicitPositionInputs, xp \in ExplicitPositionInputs,
        l \in LookAtInputs }

\* options a caller passes when the arguments before them are looked at
ConstructUserOptions ==
    { [username |-> u, warpConfig |-> WarpUndefined,
       avatarConfig |-> NoAvatarConfig] : u \in {Undefined, Some(<<"b">>)} }

\* What a caller passes for scene, camera and player: nothing, an object that
\* is no THREE object, or a THREE object of the named class (Scene and Camera
\* extend Object3D).
SceneKinds == {"missing", "Object3D", "Scene"}
CameraKinds == {"missing", "Object3D", "Camera"}
PlayerKinds == {"missing", "plain", "Object3D", "Scene"}

InstanceOf(kind, class) ==
    \/ kind = class
    \/ class = "Object3D" /\ kind \in {"Scene", "Camera"}

\* the mutant does not look at the player
ArgumentErrorNoPlayerTest(scene, camera, player) ==
    IF scene = "missing" \/ ~InstanceOf(scene, "Scene") THEN Some("scene")
    ELSE IF camera = "missing" \/ ~InstanceOf(camera, "Camera") THEN Some("camera")
    ELSE Undefined

\* the validation at the head of vibeverse(): the error thrown, or Undefined
ArgumentError(scene, camera, player) ==
    IF scene = "missing" \/ ~InstanceOf(scene, "Scene") THEN Some("scene")
    ELSE IF camera = "missing" \/ ~InstanceOf(camera, "Camera") THEN Some("camera")
    ELSE IF player = "missing" \/ ~InstanceOf(player, "Object3D") THEN Some("player")
    ELSE Undefined

\* vibeverse(scene, camera, player, o) with valid arguments: the options are
\* resolved, the state object is built, createNavigation adds the nav-group
\* element, and an avatar parameter of the page starts
\* loadAndSwapAvatar(state, avatar): the call passes the name where the target
\* rig is expected and no name, so usernameToVibatarUrl(undefined) throws
\* inside the async function and its promise is rejected.
Constructed(o) ==
    /\ navElements < MaxInstances
    /\ userOptions' = o
    /\ options' = computeVibeverseOptions(o)
    /\ instance' = Some(TheInstance)
    /\ navElements' = navElements + 1
    /\ thrown' = Undefined
    /\ unhandledRejections' =
          IF Coalesce(getQueryParam(search, "avatar"), <<>>) # <<>>
          THEN unhandledRejections + 1 ELSE unhandledRejections
    /\ enableWarpEffect' = (options'.warpConfig # Undefined)
    /\ isWarping' = FALSE
    /\ currentCameraSpeed' = 0
    /\ warpEffect' = Undefined
    /\ startPortal' = Undefined
    /\ exitPortal' = Undefined
    /\ startPortalBox' = Undefined
    /\ exitPortalBox' = Undefined
    /\ created' = Undefined
    /\ lastDispatch' = {}
    /\ streak' = [r \in Roles |-> NoStreak]
    /\ lineReset' = <<>>
    /\ UNCHANGED <<stateSource, queueVars, warpBuilds, animatePending,
                   cameraPosition, search, playerPosition, scenePortals,
                   portalLoops, href, preloadFrames, eventVars, peerVars>>

\* a call of vibeverse(scene, camera, player, o) with o drawn from inputs
vibeverse(sceneKinds, cameraKinds, playerKinds, inputs) ==
    \E scene \in sceneKinds, camera \in cameraKinds, player \in playerKinds :
        /\ lastArgs' = Some([scene |-> scene, camera |-> camera, player |-> player])
        /\ lastOp' = "vibeverse"
        /\ rampFrames' = Undefined
        /\ IF ArgumentError(scene, camera, player) # Undefined
           THEN /\ thrown' = ArgumentError(scene, camera, player)
                /\ UNCHANGED <<userOptions, stateSource, options, instance,
                               navElements, unhandledRejections, eventVars,
                               peerVars, queueVars,
                               portalVars, enableWarpEffect, isWarping,
                               currentCameraSpeed, warpEffect, warpBuilds,
                               animatePending, cameraPosition, lineReset>>
           ELSE \E o \in inputs : Constructed(o)

\* a call with any kind of scene, camera and player
Construct == vibeverse(SceneKinds, CameraKinds, PlayerKinds, ConstructUserOptions)

\* a call with a scene, a camera and a player, and any placement options
ConstructPlaced ==
    vibeverse({"Scene"}, {"Camera"}, {"Object3D"}, PlacementUserOptions)

\* instance.createHUDPortals(): the member is the Navigation object, not a
\* function, and calling it throws a TypeError
CreateHUDPortals ==
    /\ instance # Undefined
    /\ instance[1].createHUDPortals = "object"
    /\ thrown' = Some("TypeError")
    /\ UNCHANGED navElements
    /\ lastOp' = "createHUDPortals"
    /\ rampFrames' = Undefined
    /\ UNCHANGED <<userOptions, stateSource, options, instance, lastArgs,
                   unhandledRejections, eventVars, peerVars, queueVars,
                   portalVars, enableWarpEffect,
                   isWarping, currentCameraSpeed, warpEffect, warpBuilds,
                   animatePending, cameraPosition, lineReset>>

\* the page before any vibeverse() call: nothing has been resolved or built
NotCalled == [called |-> FALSE]

ConstructSearchInputs ==
    { <<>>,
      <<[key |-> "avatar", value |-> <<"a", "l", "i", "c", "e">>]>>,
      <<[key |-> "ref", value |-> RefHost]>> }

InitConstruct ==
    /\ userOptions = NotCalled
    /\ stateSource = "computeVibeverseOptions"
    /\ options = NotCalled
    /\ instance = Undefined
    /\ navElements = 0
    /\ thrown = Undefined
    /\ lastArgs = Undefined
    /\ unhandledRejections = 0
    /\ InitEventState
    /\ InitPeerState
    /\ search \in ConstructSearchInputs
    /\ playerPosition = <<30, 0, 0>>
    /\ InitQueueState
    /\ InitPortalState
    /\ enableWarpEffect = FALSE
    /\ isWarping = FALSE
    /\ currentCameraSpeed = 0
    /\ warpEffect = Undefined
    /\ warpBuilds = 0
    /\ animatePending = 0
    /\ cameraPosition = 0
    /\ lineReset = <<>>
    /\ lastOp = "load"
    /\ rampFrames = Undefined

NextConstruct == Construct \/ CreateHUDPortals

SpecConstruct == InitConstruct /\ [][NextConstruct]_vars

NextConfig == ConstructPlaced

SpecConfig == InitConstruct /\ [][NextConfig]_vars

\* ------------------------------------------------------------ events.ts
\* the handlers callers pass to the subscriber
Callbacks == {"f", "g"}

\* the mutant keeps a list of handlers
addToList(set, handler) == Append(set, handler)

\* Set.prototype.add: a value already in the Set is not added again
add(set, handler) ==
    IF \E i \in 1..Len(set) : set[i] = handler THEN set ELSE Append(set, handler)

\* Set.prototype.delete
delete(set, handler) == SelectSeq(set, LAMBDA h : h # handler)

\* the subscribe calls made so far: the n-th returned the n-th handle
Subscribed == {k \in 1..Len(eventLog) : eventLog[k].op = "subscribe"}

\* the handler the n-th handle closes over
HandlerOf(n) ==
    eventLog[CHOOSE k \in Subscribed :
                Cardinality({j \in Subscribed : j < k}) = n - 1].handler

\* what the avatar code leaves alone while callers use the event
EventFrame ==
    /\ rampFrames' = Undefined
    /\ UNCHANGED <<userOptions, stateSource, options, instance, navElements,
                   thrown, lastArgs, unhandledRejections, peerVars, queueVars,
                   portalVars,
                   enableWarpEffect, isWarping, currentCameraSpeed, warpEffect,
                   warpBuilds, animatePending, cameraPosition, lineReset>>

\* event[0](handler): handlers.add(handler), returns () => handlers.delete(handler)
Subscribe ==
    \E handler \in Callbacks :
        /\ Len(eventLog) < MaxEventCalls
        /\ handlers' = add(handlers, handler)
        /\ eventLog' = Append(eventLog, [op |-> "subscribe", handler |-> handler,
                                         handle |-> Cardinality(Subscribed) + 1])
        /\ lastOp' = "subscribe"
        /\ UNCHANGED calls
        /\ EventFrame

\* a call of the function the n-th subscribe returned
Unsubscribe ==
    \E n \in 1..Cardinality(Subscribed) :
        /\ Len(eventLog) < MaxEventCalls
        /\ handlers' = delete(handlers, HandlerOf(n))
        /\ eventLog' = Append(eventLog, [op |-> "unsubscribe",
                                         handler |-> HandlerOf(n), handle |-> n])
        /\ lastOp' = "unsubscribe"
        /\ UNCHANGED calls
        /\ EventFrame

\* event[1](data): handlers.forEach((handler) => handler(data))
Emit ==
    /\ calls' = handlers
    /\ lastOp' = "emit"
    /\ UNCHANGED <<handlers, eventLog>>
    /\ EventFrame

NextEvent == Subscribe \/ Unsubscribe \/ Emit

SpecEvent == InitConstruct /\ [][NextEvent]_vars

\* ------------------------------------------------------------ the avatar queue
\* options a caller passes for the avatar queue
AllowedDomainInputs ==
    { Undefined,
      Some(<<>>),
      Some(<<EvilHost>>) }

QueueUserOptions ==
    { [username |-> Undefined, warpConfig |-> WarpUndefined,
       avatarConfig |-> [useBottomOrigin |-> Undefined, allowedDomains |-> d,
                         maxConcurrent |-> m]] :
        d \in AllowedDomainInputs,
        m \in {Undefined, Some(1), Some(MaxConcurrentInput)} }

\* state.options is the result of computeVibeverseOptions, or (stateSource =
\* "typed") a VibeverseOptions as types.ts declares it, whose
\* avatarConfig.maxConcurrent is a number.
InitQueue ==
    /\ userOptions \in QueueUserOptions
    /\ stateSource \in {"computeVibeverseOptions", "typed"}
    /\ LET resolved == computeVibeverseOptions(userOptions)
       IN  IF stateSource = "typed"
           THEN /\ userOptions.avatarConfig.maxConcurrent # Undefined
                /\ options = [resolved EXCEPT !.avatarConfig =
                     [useBottomOrigin |-> resolved.avatarConfig.useBottomOrigin,
                      allowedDomains |-> resolved.avatarConfig.allowedDomains,
                      maxConcurrent |-> userOptions.avatarConfig.maxConcurrent[1]]]
           ELSE options = resolved
    /\ search = <<>>
    /\ playerPosition = <<30, 0, 0>>
    /\ InitInstance
    /\ InitQueueState
    /\ InitWarpState
    /\ InitPortalState

NextQueue == Enqueue \/ TaskCompletes \/ Finally

SpecQueue == InitQueue /\ [][NextQueue]_vars

\* ---- two instances on one page
\* What the page-wide queue looks like to the instance whose state is passed
\* to processQueue: the tasks that call starts are started by the peer
StartedNow(q) == q.running \ running

\* peer.swapAvatar(...) -> loadAndSwapAvatar(peerState, rig, name): the same
\* module-level queue and inFlightCount, the peer's maxConcurrent
loadAndSwapAvatarOfPeer(targetPlayer, avatarUrlOrUsername) ==
    LET avatarUrl == ResolveAvatarUrl(avatarUrlOrUsername)
        id == Len(accepted) + 1
        q == processQueue([QueueState EXCEPT !.queue = Append(queue, id)],
                          peerMaxConcurrent)
    IN  /\ IF ~isAllowedDomain(avatarUrl, options.avatarConfig.allowedDomains)
           THEN \* console.warn and return
                /\ rejectionLogged' = TRUE
                /\ UNCHANGED <<inFlightCount, queue, running, startOrder, accepted,
                               returned, viaPeer, startedByPeer>>
           ELSE /\ Len(accepted) < MaxTasks
                /\ accepted' = Append(accepted,
                                 [target |-> targetPlayer, url |-> avatarUrl])
                /\ viaPeer' = viaPeer \cup {id}
                /\ SetQueueState(q)
                /\ startedByPeer' = startedByPeer \cup StartedNow(q)
                /\ returned' = ReturnsAfterEnqueue(returned, id)
                /\ UNCHANGED rejectionLogged
        /\ UNCHANGED <<settled, finished, localEvents, remoteEvents, rigs,
                       peerMaxConcurrent, userOptions, stateSource, options,
                       instance, navElements, thrown, lastArgs,
                       unhandledRejections, eventVars, warpVars, portalVars>>

EnqueuePeer == \E s \in LocalInputs : loadAndSwapAvatarOfPeer("player", s)

\* the finally callback of a task: the closure holds the state that was
\* passed to the processQueue call which started the task
FinallyOnPage ==
    /\ settled # <<>>
    /\ LET done == Head(settled)
           byPeer == done \in startedByPeer
           q == processQueue([QueueState EXCEPT !.inFlightCount = inFlightCount - 1],
                             IF byPeer THEN peerMaxConcurrent
                             ELSE MaxConcurrentOfState)
       IN  /\ settled' = Tail(settled)
           /\ finished' = finished \cup {done}
           /\ SetQueueState(q)
           /\ startedByPeer' = IF byPeer THEN startedByPeer \cup StartedNow(q)
                               ELSE startedByPeer
    /\ UNCHANGED <<accepted, rejectionLogged, localEvents, remoteEvents, viaPeer,
                   returned, rigs,
                   peerMaxConcurrent, userOptions, stateSource, options, instance,
                   navElements, thrown, lastArgs, unhandledRejections, eventVars,
                   warpVars, portalVars>>

\* two instances whose states have different numeric maxConcurrent
InitPage ==
    /\ userOptions \in QueueUserOptions
    /\ userOptions.avatarConfig.allowedDomains = Undefined
    /\ userOptions.avatarConfig.maxConcurrent # Undefined
    /\ stateSource = "typed"
    /\ options = [computeVibeverseOptions(userOptions) EXCEPT !.avatarConfig =
                    [useBottomOrigin |-> FALSE,
                     allowedDomains |-> DEFAULT_AVATAR_CONFIG.allowedDomains,
                     maxConcurrent |-> userOptions.avatarConfig.maxConcurrent[1]]]
    /\ peerMaxConcurrent \in {Some(n) : n \in 1..MaxConcurrentInput}
                               \ {userOptions.avatarConfig.maxConcurrent}
    /\ viaPeer = {}
    /\ startedByPeer = {}
    /\ search = <<>>
    /\ playerPosition = <<30, 0, 0>>
    /\ InitEventState
    /\ instance = Some(TheInstance)
    /\ navElements = 2
    /\ thrown = Undefined
    /\ lastArgs = Some([scene |-> "Scene", camera |-> "Camera", player |-> "Object3D"])
    /\ unhandledRejections = 0
    /\ InitQueueState
    /\ InitWarpState
    /\ InitPortalState

NextPage == EnqueueLocal \/ EnqueuePeer \/ TaskCompletes \/ FinallyOnPage

SpecPage == InitPage /\ [][NextPage]_vars

\* A state whose avatarConfig.maxConcurrent is a number >= 1, requests for the
\* local player.  Every fetch that was started completes (the network answers
\* or fails) and every queued finally callback runs (the microtask queue is
\* drained).
InitLoad ==
    /\ InitQueue
    /\ stateSource = "typed"
    /\ userOptions.avatarConfig.allowedDomains = Undefined

NextLoad == EnqueueLocal \/ TaskCompletes \/ Finally

SpecLoad ==
    /\ InitLoad
    /\ [][NextLoad]_vars
    /\ \A id \in 1..MaxTasks :
          WF_vars(id \in running /\ \E outcome \in Outcomes : CompleteTask(id, outcome))
    /\ WF_vars(Finally)

\* ------------------------------------------------------------ the warp effect
\* partial warpConfig objects a caller passes
SmallWarpConfig ==
    [lineCount |-> 2, pointsPerLine |-> 3, lineLength |-> 2, resetDistance |-> 6,
     resetOffset |-> 6, minSpeed |-> 4, speedVariation |-> 0, cameraSpeed |-> 3,
     cameraAcceleration |-> 2]

\* the lines move by more than the distance between two points of a line
FastLineWarpConfig ==
    [lineCount |-> 1, pointsPerLine |-> 3, lineLength |-> 6, resetDistance |-> 6,
     resetOffset |-> 10, minSpeed |-> 4, speedVariation |-> 0,
     minSpeedFactor |-> 10, cameraSpeed |-> 2, cameraAcceleration |-> 1]

WarpConfigInputs ==
    {WarpUndefined, WarpObject(SmallWarpConfig), WarpObject(FastLineWarpConfig)}

WarpUserOptions ==
    { [username |-> Undefined, warpConfig |-> w, avatarConfig |-> NoAvatarConfig] :
        w \in WarpConfigInputs }

InitWarp ==
    /\ userOptions \in WarpUserOptions
    /\ stateSource = "computeVibeverseOptions"
    /\ options = computeVibeverseOptions(userOptions)
    /\ search = <<>>
    /\ playerPosition = <<30, 0, 0>>
    /\ InitInstance
    /\ InitQueueState
    /\ InitWarpState
    /\ InitPortalState

NextWarp == StartWarpEffect \/ StopWarpEffect \/ ToggleWarpEffect \/ Frame

SpecWarp == InitWarp /\ [][NextWarp]_vars

\* ------------------------------------------------------------ the session
PortalUserOptions ==
    { [username |-> u, warpConfig |-> w, avatarConfig |-> NoAvatarConfig] :
        u \in {Undefined, Some(<<"b">>)},
        w \in {WarpNull, WarpObject(SmallWarpConfig)} }

Init ==
    /\ userOptions \in PortalUserOptions
    /\ stateSource = "computeVibeverseOptions"
    /\ options = computeVibeverseOptions(userOptions)
    /\ search \in SearchInputs
    /\ playerPosition \in PlayerPositions
    /\ InitInstance
    /\ InitQueueState
    /\ InitWarpState
    /\ InitPortalState

Next ==
    \/ CreateInGamePortals
    \/ MovePlayer
    \/ Update
    \/ CheckPortalCollisions

Spec == Init /\ [][Next]_vars

\* ------------------------------------------------------------ claims: queue
StartedTasks == {startOrder[i] : i \in 1..Len(startOrder)}

\* C1: with maxConcurrent = M >= 1 the number of avatar load tasks that have
\* been started and have not finished is never greater than M (counted up to
\* the run of the finally callback, which contains the tasks still loading).
C1_InFlightBound ==
    \A M \in 1..(MaxConcurrentInput + 1) :
        MaxConcurrentOfState = Some(M) =>
            /\ Cardinality(StartedTasks \ finished) <= M
            /\ Cardinality(running) <= M

\* more tasks than maxConcurrent were enqueued, one has completed, the slots are
\* all taken and a task still waits
C1_Witness ==
    /\ MaxConcurrentOfState # Undefined
    /\ MaxConcurrentOfState[1] >= 1
    /\ Cardinality(running) = MaxConcurrentOfState[1]
    /\ Len(queue) > 0
    /\ finished # {}

\* C2: accepted tasks are started in the order in which they were enqueued
\* (task ids count the accepted requests): the i-th task started is the i-th
\* task enqueued, and the pending queue holds the later ones in order.
C2_FifoStart ==
    /\ \A i \in 1..Len(startOrder) : startOrder[i] = i
    /\ \A i \in 1..Len(queue) : queue[i] = Len(startOrder) + i

\* the second task finished before the first, and the third was started
C2_Witness ==
    /\ Len(startOrder) >= 3
    /\ 2 \in finished
    /\ 1 \in running

\* the host of the claim: equal to an entry of the allow-list, or an entry
\* preceded by a dot at the end of the host
HostPermitted(hostname, allowedDomains) ==
    \E i \in 1..Len(allowedDomains) :
        \/ hostname = allowedDomains[i]
        \/ \E k \in 0..Len(hostname) :
              SubSeq(hostname, k + 1, Len(hostname)) = <<".">> \o allowedDomains[i]

UrlPermitted(url) ==
    HostPermitted(ParseURL(url).hostname, options.avatarConfig.allowedDomains)

\* C3: every task ever put in the queue (hence every fetch started) is one of
\* the accepted requests, each of which is, when it is accepted, for a URL
\* whose host is an entry of the allow-list or a subdomain of one, and the
\* step in which a request is refused (the warning is logged; a later refusal
\* changes no variable at all) leaves the queue, the tasks in flight and the
\* in-flight counter unchanged.
C3_RejectedHostNeverQueued ==
    [][ /\ \/ accepted' = accepted
           \/ /\ accepted' = Append(accepted, accepted'[Len(accepted')])
              /\ UrlPermitted(accepted'[Len(accepted')].url)
        /\ \A i \in 1..Len(queue') : queue'[i] \in 1..Len(accepted')
        /\ running' \subseteq 1..Len(accepted')
        /\ (rejectionLogged' /\ ~rejectionLogged)
              => UNCHANGED <<queue, inFlightCount, running, startOrder,
                             accepted>> ]_vars

\* a request was rejected while tasks were pending and in flight
C3_Witness ==
    /\ rejectionLogged
    /\ Len(queue) > 0
    /\ inFlightCount > 0

\* the documented default of avatarConfig.maxConcurrent
DefaultMaxConcurrent == 5

NoAvatarOptions ==
    /\ userOptions.avatarConfig.useBottomOrigin = Undefined
    /\ userOptions.avatarConfig.allowedDomains = Undefined
    /\ userOptions.avatarConfig.maxConcurrent = Undefined

\* C8: when the caller supplies no avatarConfig.maxConcurrent the resolved
\* configuration has maxConcurrent = 5 (with useBottomOrigin = false and
\* allowedDomains = ['vibatar.ai'] when those are omitted too), so that
\* pending tasks wait only while 5 loads are in flight.
C8_DefaultMaxConcurrent ==
    (stateSource = "computeVibeverseOptions" /\ NoAvatarOptions) =>
        /\ MaxConcurrentOfState = Some(DefaultMaxConcurrent)
        /\ options.avatarConfig.useBottomOrigin = FALSE
        /\ options.avatarConfig.allowedDomains = DefaultAllowedDomains
        /\ (Len(queue) > 0 => inFlightCount = DefaultMaxConcurrent)

\* ------------------------------------------------------------ claims: warp
\* C4: a call of startWarpEffect while the controller is Warping changes
\* nothing: the accumulated camera speed keeps its value, no animation callback
\* is registered and the warp visual is neither rebuilt nor changed.
C4_StartWhileWarpingIsNoOp ==
    [][ (isWarping /\ StartWarpEffect) =>
            /\ isWarping'
            /\ currentCameraSpeed' = currentCameraSpeed
            /\ animatePending' = animatePending
            /\ warpBuilds' = warpBuilds
            /\ warpEffect' = warpEffect ]_vars

\* start was the last call, made while Warping at a speed above 0
C4_Witness ==
    /\ lastOp = "start"
    /\ isWarping
    /\ currentCameraSpeed > 0
    /\ animatePending = 1

\* C5: after a stop directly followed by a start, the camera speed after the
\* k-th animation frame is min(cameraSpeed, k * cameraAcceleration), from 0 at
\* k = 0.
C5_RestartRampsFromZero ==
    rampFrames # Undefined =>
        currentCameraSpeed =
            Min(WarpConfigOfState.cameraSpeed,
                rampFrames[1] * WarpConfigOfState.cameraAcceleration)

C7_NullWarpConfigDisablesWarp ==
    userOptions.warpConfig.kind = "null" =>
        /\ ~enableWarpEffect
        /\ ~isWarping
        /\ warpEffect = Undefined
        /\ cameraPosition = 0

\* ------------------------------------------------------------ claims: portals
\* C9: a call of instance.update() checks the player's current position
\* against the portals: for every existing portal whose expanded volume
\* contains that position, the entry handler of the portal is dispatched
\* during the call.
C9_UpdateDispatchesEntry ==
    lastOp = "update" =>
        \A r \in Roles :
            InExpandedVolume(r, playerPosition) => r \in lastDispatch

\* C10 as stated: over any number of consecutive collision checks with the
\* player inside the expanded volume of a portal, the entry handler of that
\* portal is invoked one time in total.
C10_EntryDispatchedOnce ==
    \A r \in Roles : streak[r].checks >= 1 => streak[r].entries = 1

\* C10: the collision detector dispatches a portal's entry handler once in
\* every collision check that finds the player inside the portal's expanded
\* volume: over N consecutive such checks the handler is invoked N times.
C10_EntryDispatchedPerCheck ==
    \A r \in Roles : streak[r].entries = streak[r].checks

\* the player stayed inside the exit portal's volume over three checks, the
\* last of them just made
C10_Witness ==
    /\ lastOp = "check"
    /\ streak["exit"].checks = MaxChecks
    /\ "exit" \in lastDispatch

\* the query string has an entry under the key ref
RefPresent == \E i \in 1..Len(search) : search[i].key = "ref"

\* C11: createInGamePortals always creates the exit portal and returns it; it
\* creates a start portal only on a page reached with a ref parameter: with a
\* referrer such as otherGame.com both portals are in the result and
\* isVibeverse() is true, and with no ref the result's startPortal is none and
\* no start portal was ever added to the scene.
C11_PortalsCreatedByRef ==
    created # Undefined =>
        /\ created[1].exitPortal.type = "exit"
        /\ exitPortal = Some(created[1].exitPortal)
        /\ scenePortals["exit"] >= 1
        /\ created[1].startPortal # Undefined => RefPresent
        /\ getQueryParam(search, "ref") \in {Some(RefHost),
                                              Some(Http \o SchemeSep \o RefHost)}
              => /\ isVibeverse(search)
                 /\ created[1].startPortal # Undefined
                 /\ created[1].startPortal[1].type = "start"
                 /\ scenePortals["start"] >= 1
        /\ ~RefPresent
              => /\ created[1].startPortal = Undefined
                 /\ startPortal = Undefined
                 /\ scenePortals["start"] = 0

\* createInGamePortals has returned both portals on a page with a referrer
C11_Witness ==
    /\ lastOp = "createInGamePortals"
    /\ created # Undefined
    /\ created[1].startPortal # Undefined
    /\ getQueryParam(search, "ref") = Some(RefHost)

\* C12: isVibeverse() is true if and only if the query string has a ref
\* parameter, whatever its value, the empty value included.
C12_IsVibeverseIffRefPresent ==
    isVibeverse(search) <=> RefPresent

\* boxes and positions for the containment test taken alone: the boxes of the
\* portals, a box of one point, and positions on, next to and away from the
\* faces of the boxes and of their expansions
BoxInputs == PortalBounds \cup {[min |-> <<2, 2, 2>>, max |-> <<2, 2, 2>>]}

Coordinates == {-4, -3, 0, 2, 4, 5, 7, 8}

GridPoints == {<<x, y, z>> : x \in Coordinates, y \in Coordinates, z \in Coordinates}

\* p is within the faces of the box, the faces included
InsideBox(box, p) ==
    \A i \in 1..3 : box.min[i] <= p[i] /\ p[i] <= box.max[i]

\* every position the containment test accepts for a box, it accepts for the
\* box expanded by 1.5
HitsGrowOnGrid ==
    \A b \in BoxInputs, p \in GridPoints \cup PlayerPositions :
        containsPoint(b, p) => containsPoint(expandByScalar(b, ExpandMargin), p)

\* C13: a position inside the un-expanded volume of a portal is reported as a
\* hit by the collision check (the entry handler of the portal is
\* dispatched), and every position the containment test accepts for a box it
\* accepts for the box expanded by 1.5 as well.
C13_ExpansionOnlyGrowsHits ==
    /\ HitsGrowOnGrid
    /\ lastOp = "check" =>
          \A r \in Roles :
              (PortalOf(r) # Undefined
                 /\ InsideBox(PortalOf(r)[1].bounds, playerPosition))
                  => r \in lastDispatch

\* a collision check was made with the player inside the un-expanded box of
\* the exit portal
C13_Witness ==
    /\ lastOp = "check"
    /\ exitPortal # Undefined
    /\ InsideBox(exitPortal[1].bounds, playerPosition)
    /\ "exit" \in lastDispatch

\* ------------------------------------------------------------ claims: config
\* the root position and the radii a caller asked for, with the defaults for
\* what is missing (the position in half units)
RootAskedFor ==
    IF userOptions.position = Undefined THEN <<0, 0, 0>>
    ELSE <<Coalesce(userOptions.position[1].x, 0),
           Coalesce(userOptions.position[1].y, 0),
           Coalesce(userOptions.position[1].z, 0)>>

RadiusAskedFor(portal) == Coalesce(userOptions[portal].radius, DefaultRadius)

\* C14: when neither portal has an explicit position, the enter portal is at
\* root.x - s and the exit portal at root.x + s with the y and z of the root,
\* where s = max(enterRadius, exitRadius) * 2.5, so that they are 2 * s apart
\* (in half units: 10 * max).
C14_AutomaticPlacementSymmetric ==
    (instance # Undefined
       /\ userOptions.enter.position = Undefined
       /\ userOptions.exit.position = Undefined) =>
        LET root == RootAskedFor
            largest == IF RadiusAskedFor("enter") >= RadiusAskedFor("exit")
                       THEN RadiusAskedFor("enter") ELSE RadiusAskedFor("exit")
        IN  /\ options.position = root
            /\ root[1] - options.enter.position[1] = options.exit.position[1] - root[1]
            /\ options.exit.position[1] - options.enter.position[1] = 10 * largest
            /\ options.enter.position[2] = root[2] /\ options.enter.position[3] = root[3]
            /\ options.exit.position[2] = root[2] /\ options.exit.position[3] = root[3]

\* an instance placed automatically around a given root with radii 2 and 9
C14_Witness ==
    /\ instance # Undefined
    /\ userOptions.enter.position = Undefined
    /\ userOptions.exit.position = Undefined
    /\ userOptions.position # Undefined
    /\ userOptions.enter.radius = Some(2)
    /\ userOptions.exit.radius = Some(9)
    /\ options.exit.position[1] - options.enter.position[1] = 90

\* ------------------------------------------------------------ claims: url
\* allow-lists for the domain check taken alone
DomainLists ==
    { <<>>, <<VibatarHost>>, <<EvilHost>>, <<EvilHost, VibatarHost>> }

\* isAllowedDomain answers true exactly for a string that parses as a URL
\* whose host is an entry of the list or ends with a dot and an entry
AllowedExactlyWhenPermitted ==
    \A url \in KnownStrings, list \in DomainLists :
        isAllowedDomain(url, list)
            <=> (ParseURLText(url).ok
                   /\ HostPermitted(ParseURLText(url).hostname, list))

\* C15: isAllowedDomain(url, allowed) returns a boolean for every input: true
\* exactly when url parses as a URL whose host equals an allowed domain or
\* ends with '.' and an allowed domain, false for an unparsable string and
\* for a host with an allowed domain as a suffix without the dot; so every
\* accepted request is for a permitted URL, and none of the refused ones is.
C15_AllowedDomainExact ==
    /\ AllowedExactlyWhenPermitted
    /\ \A list \in DomainLists :
          /\ ~isAllowedDomain(<<"a", "l", "i", "c", "e">>, list)
          /\ ~isAllowedDomain(Https \o SchemeSep \o <<"x">> \o VibatarHost \o Path,
                              <<VibatarHost>>)
          /\ ~isAllowedDomain(Https \o SchemeSep \o EvilHost \o Path, <<VibatarHost>>)
          /\ isAllowedDomain(Https \o SchemeSep \o <<"s", "u", "b", ".">>
                                \o VibatarHost \o Path, <<VibatarHost>>)
    /\ \A i \in 1..Len(accepted) :
          isAllowedDomain(accepted[i].url, options.avatarConfig.allowedDomains)
            /\ UrlPermitted(accepted[i].url)

\* with the default allow-list a request for a subdomain of vibatar.ai was
\* accepted and another request was refused
C15_Witness ==
    /\ options.avatarConfig.allowedDomains = DefaultAllowedDomains
    /\ rejectionLogged
    /\ \E i \in 1..Len(accepted) :
          accepted[i].url = Https \o SchemeSep \o <<"s", "u", "b", ".">>
                               \o VibatarHost \o Path

\* ------------------------------------------------------------ claims: navigation
\* the n-th smallest element of a set of numbers
Nth(K, n) == CHOOSE i \in K : Cardinality({j \in K : j < i}) = n - 1

\* the entries of seq at the indices in K, in order
Pick(seq, K) == [n \in 1..Cardinality(K) |-> seq[Nth(K, n)]]

Entry(k, v) == [key |-> k, value |-> v]

\* the keys handleExitPortalEntry sets itself
ExplicitKeys ==
    {"portal", "color"} \cup (IF options.username # <<>> THEN {"username"} ELSE {})

\* the current parameters that are forwarded to the hub: the first entry of
\* each key that is not an explicit key
ForwardedToHub ==
    Pick(search,
         {i \in 1..Len(search) :
             /\ search[i].key \notin ExplicitKeys
             /\ \A j \in 1..(i - 1) : search[j].key # search[i].key})

\* C16: the destination of an exit-portal entry is the hub with portal=true,
\* then username=<configured username> if and only if one is configured, then
\* color=white, then the current parameters in order, each appended if and
\* only if its key is not yet in the destination; no key occurs twice.
C16_ExitQueryFirstWriteWins ==
    (href # Undefined /\ href[1].base = HubUrl) =>
        LET q == href[1].params
        IN  /\ q = <<Entry("portal", <<"t", "r", "u", "e">>)>>
                   \o (IF options.username # <<>>
                       THEN <<Entry("username", options.username)>> ELSE <<>>)
                   \o <<Entry("color", <<"w", "h", "i", "t", "e">>)>>
                   \o ForwardedToHub
            /\ \A i, j \in 1..Len(q) : q[i].key = q[j].key => i = j

\* the exit portal was entered on a page whose query string has color, portal
\* and a repeated key, by an instance with a username
C16_Witness ==
    /\ href # Undefined
    /\ href[1].base = HubUrl
    /\ "exit" \in lastDispatch
    /\ options.username # <<>>
    /\ \E i \in 1..Len(search) : search[i].key = "color"
    /\ Len(ForwardedToHub) = 2


\* the current parameters whose key is not ref, in order
NonRef == Pick(search, {i \in 1..Len(search) : search[i].key # "ref"})

\* the address text has a query string with a ref key
HasRefKey(chars) ==
    \E i \in 1..Len(chars) :
        /\ chars[i] \in {"?", "&"}
        /\ \E j \in 1..i : chars[j] = "?"
        /\ i + 3 <= Len(chars)
        /\ SubSeq(chars, i + 1, i + 3) = <<"r", "e", "f">>
        /\ (i + 3 = Len(chars) \/ chars[i + 4] \in {"=", "&"})

\* the start portal's navigation target on this page
IsStartTarget(h) == refUrl(search) # Undefined /\ h.base = refUrl(search)[1]

\* what the start portal must have built of the target
StartTargetForwardsNonRef(h) ==
    /\ h.params = NonRef
    /\ h.mark = (IF NonRef = <<>> THEN <<>> ELSE <<"?">>)
    /\ \A i \in 1..Len(h.params) : h.params[i].key # "ref"

\* C17 as stated: on start-portal entry with a referrer, the target is the
\* referrer, then '?' and the current parameters without the ref entries,
\* the others unchanged and in order, no '?' when none remains, and the target
\* contains no ref key anywhere.
C17_StartTargetHasNoRef ==
    (href # Undefined /\ IsStartTarget(href[1])) =>
        /\ StartTargetForwardsNonRef(href[1])
        /\ ~HasRefKey(href[1].base)

\* C17 (amended): on start-portal entry with a referrer, the target is the
\* referrer, then '?' and the current parameters without the ref entries,
\* the others unchanged and in order, no '?' when none remains; the
\* parameters written after the referrer contain no ref key.
C17_StartTargetForwardsNonRef ==
    (href # Undefined /\ IsStartTarget(href[1])) =>
        StartTargetForwardsNonRef(href[1])

\* the start portal was entered on a page with two ref entries and another
\* parameter, and on a page where nothing remains
C17_Witness ==
    /\ href # Undefined
    /\ IsStartTarget(href[1])
    /\ "start" \in lastDispatch
    /\ Cardinality({i \in 1..Len(search) : search[i].key = "ref"}) = 2
    /\ href[1].params # <<>>

C17_WitnessNothingRemains ==
    /\ href # Undefined
    /\ IsStartTarget(href[1])
    /\ "start" \in lastDispatch
    /\ href[1].mark = <<>>


\* ------------------------------------------------------------ claims: construction
\* the arguments are a scene, a camera and a player object
RightKinds(args) ==
    /\ args.scene = "Scene"
    /\ args.camera = "Camera"
    /\ args.player \in {"Object3D", "Scene", "Camera"}

\* the step is a call of vibeverse() with a missing or wrong-kind argument
FailingConstruction ==
    /\ lastOp' = "vibeverse"
    /\ lastArgs' # Undefined
    /\ ~RightKinds(lastArgs'[1])

\* C18: a construction with a missing or wrong-kind scene, camera or player
\* throws and creates nothing: no navigation element is added to the
\* document, no avatar load is started or enqueued, no options are resolved
\* and no instance comes back.
C18_BadArgumentsFailFirst ==
    [][FailingConstruction =>
          /\ thrown' \in {Some("scene"), Some("camera"), Some("player")}
          /\ navElements' = navElements
          /\ unhandledRejections' = unhandledRejections
          /\ inFlightCount' = inFlightCount
          /\ UNCHANGED queueVars
          /\ instance' = instance
          /\ options' = options]_vars

\* a first construction failed on its player, on a page that names an avatar:
\* nothing was built
C18_Witness ==
    /\ lastOp = "vibeverse"
    /\ thrown = Some("player")
    /\ lastArgs # Undefined
    /\ lastArgs[1].player \in {"missing", "plain"}
    /\ getQueryParam(search, "avatar") # Undefined
    /\ instance = Undefined
    /\ navElements = 0


\* C20: createHUDPortals is an operation of the instance: the navigation
\* element is added to the document by a call of createHUDPortals() and by
\* nothing else (an instance on which it was never called has added none),
\* and the call returns its handle instead of throwing.
C20_HUDCreatedByCall ==
    [][/\ navElements' # navElements => lastOp' = "createHUDPortals"
       /\ lastOp' = "createHUDPortals" =>
             /\ thrown' = Undefined
             /\ navElements' = navElements + 1]_vars


\* ------------------------------------------------------------ claims: events
\* how often the last emit invoked the callback
Invocations(f) == Cardinality({i \in 1..Len(calls) : calls[i] = f})

\* the handles of the callback that have not been invoked
LiveHandles(f) ==
    {k \in Subscribed :
        /\ eventLog[k].handler = f
        /\ ~\E j \in 1..Len(eventLog) :
              /\ eventLog[j].op = "unsubscribe"
              /\ eventLog[j].handle = eventLog[k].handle}

\* the last subscribe of the callback is later than every invocation of a
\* handle of the callback
SubscribedLast(f) ==
    \E k \in Subscribed :
        /\ eventLog[k].handler = f
        /\ \A j \in (k + 1)..Len(eventLog) :
              ~(eventLog[j].op = "unsubscribe" /\ eventLog[j].handler = f)

\* C19 as stated: invoking a handle removes that subscription only; an emit
\* invokes a callback if and only if one of its subscriptions has not been
\* unsubscribed, also when the same callback was subscribed more than once.
C19_UnsubscribeRemovesItsSubscriptionOnly ==
    lastOp = "emit" =>
        \A f \in Callbacks : (Invocations(f) > 0) <=> (LiveHandles(f) # {})

\* C19 (amended): a subscription registers its callback once, however often
\* it is subscribed, and invoking any handle of a callback removes the
\* callback: an emit invokes a callback exactly once if its last subscribe
\* is later than every invocation of one of its handles, and not at all
\* otherwise; other callbacks are not affected.
C19_UnsubscribeRemovesItsCallback ==
    lastOp = "emit" =>
        \A f \in Callbacks :
            Invocations(f) = (IF SubscribedLast(f) THEN 1 ELSE 0)

\* f was subscribed twice and g once, one handle of f was invoked, and the
\* emit that followed invoked g only
C19_Witness ==
    /\ lastOp = "emit"
    /\ Cardinality({k \in Subscribed : eventLog[k].handler = "f"}) = 2
    /\ Cardinality(LiveHandles("f")) = 1
    /\ LiveHandles("g") # {}
    /\ calls = <<"g">>


\* ------------------------------------------------------------ claims: defaults
\* the caller gave no lookAt, neither for the root nor for a portal
NoLookAtGiven ==
    /\ Prop(userOptions, "lookAt") = Undefined
    /\ PortalField(userOptions, "enter", "lookAt") = Undefined
    /\ PortalField(userOptions, "exit", "lookAt") = Undefined

\* C21: when the caller supplies no root lookAt and no per-portal lookAt, the
\* resolved root orientation and both portals' orientations are Euler
\* (0, pi, 0); when no root position is supplied the root position is the
\* origin.
C21_DefaultOrientationAndOrigin ==
    instance # Undefined =>
        /\ NoLookAtGiven =>
              /\ options.lookAt = DefaultLookAt
              /\ options.enter.lookAt = DefaultLookAt
              /\ options.exit.lookAt = DefaultLookAt
        /\ Prop(userOptions, "position") = Undefined =>
              options.position = <<0, 0, 0>>


\* ------------------------------------------------------------ claims: warp loop
\* C22: after a stop with no later start, the animation callback that was
\* already scheduled runs once more, finds isWarping false, changes neither
\* the camera position nor a line buffer nor the camera speed and schedules
\* nothing; from then on no callback is pending until the next start, so the
\* loop does not run again.
C22_StoppedLoopEnds ==
    [][/\ (~isWarping /\ lastOp' = "frame") =>
             /\ animatePending' = 0
             /\ cameraPosition' = cameraPosition
             /\ currentCameraSpeed' = currentCameraSpeed
             /\ warpEffect' = warpEffect
             /\ lineReset' = lineReset
       /\ (animatePending = 0 /\ animatePending' > 0) => lastOp' = "start"]_vars

\* the camera had travelled, the effect was stopped and the callback left over
\* has run: nothing is pending
C22_Witness ==
    /\ lastOp = "frame"
    /\ ~isWarping
    /\ animatePending = 0
    /\ cameraPosition > 0
    /\ currentCameraSpeed = 0
    /\ warpEffect # Undefined


\* C23: after any sequence of start, stop and frame callbacks at most one
\* warp animation callback is pending (each pending callback advances and
\* accelerates the camera once in the next frame); a stop followed by a
\* start before the scheduled callback has run leaves one loop.
C23_OneLoop == animatePending <= 1


RECURSIVE Ramp(_, _, _, _)
\* the speed after n ticks, each to the smaller of the limit and speed + step
Ramp(speed, n, limit, step) ==
    IF n = 0 THEN speed
    ELSE Ramp(IF speed + step < limit THEN speed + step ELSE limit,
              n - 1, limit, step)

\* C24: with cameraSpeed >= 0 and cameraAcceleration >= 0 the accumulated
\* camera speed is between 0 and cameraSpeed in every reachable state, and a
\* frame of a warping period never lowers it: each animation callback the
\* frame runs sets it to min(cameraSpeed, speed + cameraAcceleration).
C24_SpeedRampClamped ==
    /\ [](/\ 0 <= currentCameraSpeed
          /\ currentCameraSpeed <= WarpConfigOfState.cameraSpeed)
    /\ [][(isWarping /\ lastOp' = "frame") =>
             /\ currentCameraSpeed' >= currentCameraSpeed
             /\ currentCameraSpeed' =
                   Ramp(currentCameraSpeed, animatePending,
                        WarpConfigOfState.cameraSpeed,
                        WarpConfigOfState.cameraAcceleration)]_vars

\* one loop, and the last tick was cut to a limit that is no multiple of the
\* acceleration
C24_Witness ==
    /\ lastOp = "frame"
    /\ isWarping
    /\ animatePending = 1
    /\ currentCameraSpeed = WarpConfigOfState.cameraSpeed
    /\ WarpConfigOfState.cameraSpeed % WarpConfigOfState.cameraAcceleration # 0


\* ------------------------------------------------------------ claims: avatar loads
Started == {startOrder[i] : i \in 1..Len(startOrder)}

Pending == {queue[i] : i \in 1..Len(queue)}

\* the tasks processQueue admits when a slot is released
AdmittedAfterRelease ==
    Min(Len(queue), Max(0, MaxConcurrentOfState[1] - (inFlightCount - 1)))

\* a fetch ends and no avatar is attached: the load failed or the asset was
\* empty
CompletionWithoutAvatar(id) ==
    /\ id \in running
    /\ running' = running \ {id}
    /\ localEvents' = localEvents
    /\ remoteEvents' = remoteEvents

\* C25: a task whose load fails counts for the queue like one that succeeds:
\* its completion queues the release of its slot, the release decrements the
\* in-flight count by one and admits the next pending tasks, the task is
\* never started again, and every task accepted after it is started.
C25_FailedTaskFreesItsSlot ==
    /\ [][\A id \in 1..MaxTasks :
            CompletionWithoutAvatar(id) =>
                /\ settled' = Append(settled, id)
                /\ inFlightCount' = inFlightCount
                /\ queue' = queue]_vars
    /\ [][Len(settled') < Len(settled) =>
            /\ finished' = finished \cup {Head(settled)}
            /\ Len(startOrder') - Len(startOrder) = AdmittedAfterRelease
            /\ inFlightCount' = inFlightCount - 1 + AdmittedAfterRelease
            /\ Head(settled) \notin running' \cup Pending']_vars
    /\ [](/\ \A i, j \in 1..Len(startOrder) : startOrder[i] = startOrder[j] => i = j
          /\ finished \cap (running \cup Pending) = {})
    /\ \A id \in 1..MaxTasks : (Len(accepted) >= id) ~> (id \in Started)

\* with one slot: the first task ended without an avatar and was released,
\* and the second, accepted while the first was loading, is in flight
C25_Witness ==
    /\ MaxConcurrentOfState = Some(1)
    /\ localEvents = 0
    /\ finished = {1}
    /\ running = {2}
    /\ inFlightCount = 1

\* C26: with maxConcurrent >= 1, if every started fetch completes, every
\* accepted task is eventually started and eventually finishes, and once no
\* more tasks are enqueued the pending queue becomes empty and the in-flight
\* count returns to 0.
C26_QueueDrains ==
    /\ \A id \in 1..MaxTasks : (Len(accepted) >= id) ~> (id \in Started)
    /\ \A id \in 1..MaxTasks : (Len(accepted) >= id) ~> (id \in finished)
    /\ <>[](queue = <<>> /\ inFlightCount = 0 /\ running = {} /\ settled = <<>>)

\* three tasks went through one slot and the queue is idle again
C26_Witness ==
    /\ MaxConcurrentOfState = Some(1)
    /\ Len(accepted) = 3
    /\ finished = {1, 2, 3}
    /\ queue = <<>>
    /\ inFlightCount = 0


TasksInQueue == {queue[i] : i \in 1..Len(queue)}

\* C28: the promise that swapAvatar / loadAndSwapAvatar returned for an
\* accepted request is settled only when the request's load task has finished:
\* never while the task waits in the queue or is in flight.
C28_PromiseSettlesAfterTask ==
    \A id \in returned : id \notin TasksInQueue /\ id \notin running

\* ---------------------------------------------------------------- C30
\* the rig a step swapped an avatar onto: the step emitted its avatar event
SwappedRigs ==
    {t \in Targets :
        \/ t = "player" /\ localEvents' = localEvents + 1
        \/ t # "player" /\ remoteEvents' = remoteEvents + 1}

\* C30: a successful swap hides every object that was below the rig and keeps
\* it attached, attaches the new node as the last child, visible, and leaves the
\* rig's own visible flag as it was; no other rig changes.
C30_SwapHidesChildrenOnly ==
    [][\A t \in Targets :
          IF t \in SwappedRigs
          THEN /\ rigs'[t].visible = rigs[t].visible
               /\ Len(rigs'[t].children) = Len(rigs[t].children) + 1
               /\ \A i \in 1..Len(rigs[t].children) :
                     rigs'[t].children[i] =
                         [rigs[t].children[i] EXCEPT !.visible = FALSE]
               /\ rigs'[t].children[Len(rigs'[t].children)] = NewAvatar
          ELSE rigs'[t] = rigs[t]]_vars


\* ---------------------------------------------------------------- C29
\* the page the entry handler of a role navigates to
NavigationTarget(role) ==
    IF role = "exit" THEN HubUrl ELSE refUrl(search)[1]

\* C29: there is no debouncing.  After every collision check made with the
\* player's position inside a portal's expanded volume, that portal's entry
\* handler has been dispatched in the check and window.location.href holds a
\* navigation it asked for; while the player stays inside, the count of
\* dispatches equals the count of checks.
C29_EntryFiresInEveryCheck ==
    lastOp = "check" =>
        \A r \in Roles :
            InExpandedVolume(r, playerPosition) =>
                /\ r \in lastDispatch
                /\ streak[r].checks >= 1
                /\ streak[r].entries = streak[r].checks
                /\ href # Undefined
                /\ \E d \in lastDispatch : href[1].base = NavigationTarget(d)

\* the second or a later check in a row with the player inside the start
\* portal's volume only
C29_Witness ==
    /\ lastOp = "check"
    /\ InExpandedVolume("start", playerPosition)
    /\ streak["start"].checks >= 2
    /\ lastDispatch = {"start"}


\* ---------------------------------------------------------------- C31
\* C31: over any sequence of start and stop calls the warp visual is built at
\* most once, on the first effective start; once it exists it is never removed,
\* and a start, stop or toggle leaves its lines (points, velocities) and its
\* position as they are: a later start shows the same visual again.
C31_VisualBuiltOnceAndReused ==
    /\ [](/\ warpBuilds <= 1
          /\ (warpEffect # Undefined) <=> (warpBuilds = 1))
    /\ [][warpEffect # Undefined =>
            /\ warpEffect' # Undefined
            /\ lastOp' \in {"start", "stop", "toggle"} =>
                  /\ warpEffect'[1].lines = warpEffect[1].lines
                  /\ warpEffect'[1].position = warpEffect[1].position]_vars

\* a start directly after a stop, of a visual that has travelled with the
\* camera
C31_Witness ==
    /\ lastOp = "start"
    /\ rampFrames = Some(0)
    /\ isWarping
    /\ cameraPosition > 0
    /\ warpBuilds = 1

\* ---------------------------------------------------------------- C32
\* C32: in every reachable state, Warping implies that the warp visual
\* exists, and an existing visual is visible exactly when the controller is
\* Warping.
C32_VisibleIffWarping ==
    /\ isWarping => warpEffect # Undefined
    /\ warpEffect # Undefined => (warpEffect[1].visible <=> isWarping)

\* the visual exists and is hidden after the flag was cleared during a warp
C32_Witness ==
    /\ lastOp = "toggle"
    /\ ~enableWarpEffect
    /\ warpEffect # Undefined
    /\ ~warpEffect[1].visible
    /\ animatePending > 0


ResetLayoutWithinDistance(config) ==
    /\ (config.pointsPerLine - 1) * config.lineLength - config.resetOffset
          <= config.resetDistance
    /\ config.lineLength >= 0

\* C36: for a configuration whose reset layout lies within the reset distance
\* and lines of positive velocity, when an animation tick of a warp completes
\* no point of any line is deeper than resetDistance.
C36_NoPointBeyondResetDistance ==
    (/\ lastOp = "frame"
     /\ isWarping
     /\ ResetLayoutWithinDistance(WarpConfigOfState))
        => \A i \in DOMAIN warpEffect[1].lines :
              warpEffect[1].lines[i].velocity > 0 =>
                  \A k \in 1..WarpConfigOfState.pointsPerLine :
                      warpEffect[1].lines[i].z[k] <= WarpConfigOfState.resetDistance

\* a tick in which a line was reset has just completed
C36_Witness ==
    /\ lastOp = "frame"
    /\ isWarping
    /\ ResetLayoutWithinDistance(WarpConfigOfState)
    /\ \E i \in DOMAIN lineReset :
          lineReset[i] /\ warpEffect[1].lines[i].velocity > 0


\* ---------------------------------------------------------------- C33
\* the tasks whose promise settled and whose finally callback has not run
AwaitingFinally == {settled[i] : i \in 1..Len(settled)}

\* no element occurs twice in the sequence
NoRepeat(s) == \A i, j \in 1..Len(s) : s[i] = s[j] => i = j

\* C33: in every reachable state the in-flight counter is the number of tasks
\* started minus the number of tasks finished and is not negative; every
\* accepted task is either still in the queue or was started, never both and
\* never twice; every started task is in exactly one of the stages loading,
\* settled and finished.
C33_CounterAndTaskAccounting ==
    /\ inFlightCount = Len(startOrder) - Cardinality(finished)
    /\ inFlightCount >= 0
    /\ NoRepeat(startOrder) /\ NoRepeat(queue) /\ NoRepeat(settled)
    /\ Started \cap Pending = {}
    /\ Started \cup Pending = 1..Len(accepted)
    /\ running \cup AwaitingFinally \cup finished = Started
    /\ running \cap AwaitingFinally = {}
    /\ running \cap finished = {}
    /\ AwaitingFinally \cap finished = {}

\* three tasks were started: one finished, one settled with its finally
\* callback still to run, one is loading
C33_Witness ==
    /\ Len(startOrder) = 3
    /\ Cardinality(finished) = 1
    /\ settled # <<>>
    /\ running # {}
    /\ inFlightCount = 2


\* ---------------------------------------------------------------- C34
\* the step attached a new avatar to the rig
AttachedTo(t) == Len(rigs'[t].children) = Len(rigs[t].children) + 1

\* C34: a load task that attaches a new avatar emits one avatar-changed
\* notification, the local one if the target rig is the session's player and
\* the remote one otherwise; a step that attaches nothing (the load failed, the
\* asset was empty) emits neither.
C34_OneNotificationPerAttach ==
    [][/\ AttachedTo("player") =>
            /\ localEvents' = localEvents + 1
            /\ remoteEvents' = remoteEvents
       /\ AttachedTo("remote") =>
            /\ remoteEvents' = remoteEvents + 1
            /\ localEvents' = localEvents
       /\ (\A t \in Targets : ~AttachedTo(t)) =>
            /\ localEvents' = localEvents
            /\ remoteEvents' = remoteEvents]_vars

\* three loads have ended: one attached to the player, one attached to another
\* rig, one without an avatar
C34_Witness ==
    /\ Len(accepted) = 3
    /\ running = {}
    /\ queue = <<>>
    /\ localEvents = 1
    /\ remoteEvents = 1
    /\ Len(rigs["player"].children) = 2
    /\ Len(rigs["remote"].children) = 2


\* ---------------------------------------------------------------- C35
\* the step ran the exit portal's entry handler
ExitEntered == lastOp' \in {"check", "update"} /\ "exit" \in lastDispatch'

\* C35: the document never holds more than one pre-load iframe.  An entry into
\* the exit portal creates it, pointed at the destination, when there is none
\* and creates none otherwise, and assigns the destination to
\* window.location.href every time; no other step touches the iframes.
C35_OnePreloadFrame ==
    /\ [](Len(preloadFrames) <= 1)
    /\ [][IF ExitEntered
          THEN /\ href' # Undefined
               /\ href'[1].base = HubUrl
               /\ preloadFrames' = IF preloadFrames = <<>> THEN <<href'[1]>>
                                   ELSE preloadFrames
          ELSE preloadFrames' = preloadFrames]_vars

\* the second or a later entry into the exit portal in a row: the iframe of
\* the first entry is the only one
C35_Witness ==
    /\ lastOp = "check"
    /\ "exit" \in lastDispatch
    /\ streak["exit"].entries >= 2
    /\ href # Undefined
    /\ preloadFrames = <<href[1]>>


\* ---------------------------------------------------------------- C37
\* the position a caller wrote for a portal, a component it left out being 0
PositionAskedFor(portal) ==
    LET v == userOptions[portal].position[1]
    IN  <<IF v.x = Undefined THEN 0 ELSE v.x[1],
          IF v.y = Undefined THEN 0 ELSE v.y[1],
          IF v.z = Undefined THEN 0 ELSE v.z[1]>>

\* C37: when the enter or the exit portal is given an explicit position, no
\* portal is placed automatically: a portal with an explicit position is at
\* that position and a portal without one is at the root position.
C37_ExplicitPositionSkipsPlacement ==
    (instance # Undefined
       /\ (userOptions.enter.position # Undefined
              \/ userOptions.exit.position # Undefined)) =>
        \A portal \in {"enter", "exit"} :
            options[portal].position =
                IF userOptions[portal].position # Undefined
                THEN PositionAskedFor(portal)
                ELSE RootAskedFor

\* only the exit portal was given a position, the root is off the origin and
\* the radii would have spaced the portals
C37_Witness ==
    /\ instance # Undefined
    /\ userOptions.exit.position # Undefined
    /\ userOptions.enter.position = Undefined
    /\ userOptions.position # Undefined
    /\ userOptions.enter.radius = Some(9)
    /\ options.enter.position = options.position
    /\ options.exit.position # options.position


\* ---------------------------------------------------------------- C39
\* C39: after any number of createInGamePortals calls the scene holds at most
\* one portal visual per role, and each visual in the scene is driven by
\* exactly one idle-animation loop.
C39_OneVisualAndLoopPerRole ==
    \A r \in Roles :
        /\ scenePortals[r] <= 1
        /\ portalLoops[r] = scenePortals[r]

====
